---- MODULE Spec2Model ----
(***************************************************************************)
(* A model of the sb-backend request tier: the credit ledger, the session  *)
(* aggregate with its finalize / append / reprocess handlers, the payment  *)
(* webhook reconciler, the presign/commit upload registry and the semantic *)
(* search scope.  Every handler is split at its database round trips       *)
(* (awaits), which are the points where another request can interleave.    *)
(* The relational store runs at READ COMMITTED: a SELECT sees the rows     *)
(* committed at that moment, an UPDATE of a row is atomic, and the ORM     *)
(* flushes the attributes a handler has set when the handler commits.      *)
(***************************************************************************)
EXTENDS Integers, FiniteSets, Sequences, TLC

\* ---------------------------------------------------------------- bounds
MaxInitCredits == 2     \* largest starting balance explored
MaxInitBlocks  == 1     \* largest number of blocks a scenario session starts with
MaxFaults      == 1     \* database commit failures injected per behaviour
MaxDeliveries  == 3     \* webhook deliveries per behaviour
MaxPackageCredits == 2  \* largest credits amount of a catalog package
MaxJobs        == 2     \* AIJob rows created per behaviour of the session API
MaxBlocks      == 2     \* blocks appended per behaviour of the session API
MaxEmbeddings  == 3     \* embedding rows written per behaviour
MaxTextLen     == 4     \* longest text handed to chunk_text
MaxChunkSize   == 3     \* largest chunk_size handed to chunk_text
MaxRedeliveries == 1    \* stage tasks the broker delivers a second time
MaxTextChunks  == 51    \* chunks the text of the session's block yields
MaxCalls       == 4     \* describe_image calls on one VisionProvider
MaxAmount      == 2     \* largest amount passed to debit and credit
MaxBalance     == 3     \* largest balance the direct credit calls build up

\* ------------------------------------------------------------- universes
Users      == {"u1", "u2"}
SessionIds == {"s1", "s2"}
Reqs       == {"r1", "r2"}
PaymentIds == {"p1", "p2"}
Deliveries == {"d1", "d2"}
MediaIds   == {"m1", "m2"}
Texts      == {"quarterly planning", "groceries"}

\* models/session.py SessionStatus
OPEN               == "open"
PENDING_PROCESSING == "pending_processing"
PROCESSING         == "processing"
PROCESSED          == "processed"
NO_CREDITS         == "no_credits"
FAILED             == "failed"

\* credit_service.py SESSION_PROCESSING_COST
SESSION_PROCESSING_COST == 1

VARIABLES
  credits,      \* users.credits: [Users -> Int]
  sessions,     \* sessions table: [live session ids -> row]
  blocks,       \* session_blocks table: set of rows
  ai_jobs,      \* ai_jobs table: set of rows
  pipelines,    \* chains handed to the broker by pipeline.delay(), each with
                \* the stage its run has reached
  req,          \* the in-flight HTTP requests of the session API
  faults,       \* commit failures the database may still produce
  jobSeq,       \* AIJob ids handed out so far
  blockSeq,     \* block ids handed out so far
  hist,         \* history: ledger totals and what has been observed
  payments,     \* payments table: [PaymentIds -> row]
  wh,           \* the in-flight webhook deliveries
  clock,        \* datetime.utcnow() as seen by the webhook commits
  media,        \* media_files table: [live media ids -> row]
  objects,      \* the object keys present in the bucket
  up,           \* the in-flight requests of the upload API
  embeddings,   \* embeddings table: set of rows
  srch,         \* the in-flight semantic search request
  chunker,      \* the running chunk_text call: its arguments and loop locals
  vision,       \* the VisionProvider object of a process_images task, with
                \* a log of its last describe_image call
  settings,     \* config.py Settings: the provider options of the deployment
  whisper       \* a GroqWhisperProvider, with a log of its last transcribe call

sessVars   == <<sessions, blocks, ai_jobs, pipelines, req, jobSeq, blockSeq>>
payVars    == <<payments, wh, clock>>
mediaVars  == <<media, objects, up>>
searchVars == <<embeddings, srch, chunker, vision, settings, whisper>>
otherVars  == <<payVars, mediaVars, searchVars>>
sessVarsButPipelines == <<sessions, blocks, ai_jobs, req, jobSeq, blockSeq>>

vars == <<credits, faults, hist, sessVars, payVars, mediaVars, searchVars>>

\* ------------------------------------------------------------ settings
\* a deployment that runs chat and embeddings on OpenAI
OpenAIDeployment ==
  [ai_provider |-> "openai", embedding_provider |-> "None",
   openai_api_key |-> TRUE, deepseek_api_key |-> FALSE, enable_embeddings |-> TRUE]

\* ai/factory.py get_llm_provider, lines 29-52: the chat provider, or the
\* ValueError of a selected provider without key or of an unknown name
GetLlmProvider(s) ==
  LET provider_name == IF s.ai_provider = "None" THEN "deepseek" ELSE s.ai_provider IN
    IF provider_name = "openai"
    THEN IF s.openai_api_key THEN "openai" ELSE "ValueError"
    ELSE IF provider_name = "deepseek"
    THEN IF s.deepseek_api_key THEN "deepseek" ELSE "ValueError"
    ELSE "ValueError"

\* ai/factory.py get_embedding_provider, lines 83-116: OpenAI for the names
\* openai and deepseek when its key is set, a ValueError otherwise
GetEmbeddingProvider(s) ==
  LET provider_name == IF s.embedding_provider = "None" THEN "openai"
                       ELSE s.embedding_provider IN
    IF provider_name \in {"openai", "deepseek"}
    THEN IF s.openai_api_key THEN "openai" ELSE "ValueError"
    ELSE "ValueError"

\* LLMProvider.embed: DeepSeekProvider.embed raises NotImplementedError
\* (deepseek_provider.py 53-70), OpenAIProvider.embed answers a vector when
\* the API does (openai_provider.py 44-75)
Embed(provider, api_up) ==
  IF provider = "deepseek" THEN "NotImplementedError"
  ELSE IF api_up THEN "vector" ELSE "Exception"

\* generate_summary.py lines 168-196: embeddings are made when the flag is
\* set and get_embedding_provider answered
EmbeddingsOn(s) == s.enable_embeddings /\ GetEmbeddingProvider(s) # "ValueError"

\* ------------------------------------------------------- credit ledger
\* CreditService.has_credits: SELECT credits; credits >= amount
HasCredits(cr, u, amount) == cr[u] >= amount

\* the conditional UPDATE with its balance condition dropped
DebitAppliesUnguarded(balance, amount) == balance >= 0 \/ amount >= 0

\* the WHERE clause of the conditional UPDATE in CreditService.debit
DebitApplies(balance, amount) == balance >= amount

\* CreditService.debit after its amount check: one conditional UPDATE,
\* committed at once; the result is rowcount > 0
DebitRow(cr, u, amount) ==
  IF DebitApplies(cr[u], amount) THEN [cr EXCEPT ![u] = @ - amount] ELSE cr

\* CreditService.credit after its amount check: unconditional increment
CreditRow(cr, u, amount) == [cr EXCEPT ![u] = @ + amount]

\* the amount check of debit letting every amount pass
DebitAmountAny(amount) == amount = amount

\* CreditService.debit line 59: a negative amount raises ValueError
DebitAmountValid(amount) == amount >= 0

\* CreditService.credit line 89: a zero or negative amount raises ValueError
CreditAmountValid(amount) == amount > 0

\* CreditService.debit, lines 59-74: what it answers (the rowcount test)
DebitAnswer(cr, u, amount) ==
  IF ~DebitAmountValid(amount) THEN "ValueError"
  ELSE IF DebitApplies(cr[u], amount) THEN "True" ELSE "False"

\* CreditService.debit, lines 59-71: the balances it leaves
DebitEffect(cr, u, amount) ==
  IF ~DebitAmountValid(amount) THEN cr ELSE DebitRow(cr, u, amount)

\* CreditService.credit, lines 89-99: it answers None unless it raises
CreditAnswer(amount) == IF ~CreditAmountValid(amount) THEN "ValueError" ELSE "None"

\* CreditService.credit, lines 89-99: the balances it leaves
CreditEffect(cr, u, amount) ==
  IF ~CreditAmountValid(amount) THEN cr ELSE CreditRow(cr, u, amount)

\* CreditService.get_balance
GetBalance(cr, u) == cr[u]

\* ----------------------------------------------------- session service
\* SessionService.get_session: owner-scoped SELECT, None when missing
GetSession(ss, sid, u) ==
  IF sid \in DOMAIN ss /\ ss[sid].user_id = u THEN sid ELSE "None"

SessionBlocks(bs, sid) == {b \in bs : b.session_id = sid}

\* the status check letting every session pass
IsOpenAlways(row) == row.status = row.status

\* SessionService.finalize_session line 224 / add_block line 191: the status
\* check on the loaded row
IsOpen(row) == row.status = OPEN

\* chain(transcribe_audio.s(session_id, ai_job_id), process_images.s(),
\* generate_summary.s()): a run that starts at stage A
\* (total, raw, batch_start and attempted are locals of stage C,
\* fault records the failure the run has met, copy tells a task the broker
\* delivered again from the run it repeats,
\* and chain_args keeps the arguments the chain was built with)
Chain(sid, job) == [session_id |-> sid, ai_job_id |-> job, stage |-> "A",
                    fault |-> "none", copy |-> 1,
                    total |-> -1, raw |-> 0,
                    batch_start |-> 0, attempted |-> 0,
                    chain_args |-> [session_id |-> sid, ai_job_id |-> job]]

\* a stage returning a context without the job id
ReturnedContextNoJob(session_id, ai_job_id) ==
  [session_id |-> session_id, ai_job_id |-> 0]

\* the dict every return of a stage task gives (transcribe_audio.py lines
\* 110, 135, 139, 325, 329; process_images.py likewise)
ReturnedContext(session_id, ai_job_id) ==
  [session_id |-> session_id, ai_job_id |-> ai_job_id]

\* the chain calls the next task st with the value the task before returned;
\* the task reads session_id and ai_job_id from it (process_images.py lines
\* 50-51, generate_summary.py lines 71-72)
NextTask(p, previous_result, st) ==
  [p EXCEPT !.session_id = previous_result.session_id,
            !.ai_job_id = previous_result.ai_job_id, !.stage = st]

\* ------------------------------------------------------------ requests
IdleReq == [kind |-> "none", pc |-> "idle", user |-> "u1", sid |-> "s1",
            has_credits |-> FALSE, debit_success |-> FALSE, job |-> 0,
            result |-> "none", force |-> FALSE, seen_status |-> "none",
            debited |-> FALSE, job_inserted |-> FALSE, status_written |-> FALSE,
            mid |-> "m1", doomed |-> {}, amount |-> 0, block_type |-> "text",
            package |-> "None", intent |-> "None"]

NewReq(kind, pc, u, sid) ==
  [IdleReq EXCEPT !.kind = kind, !.pc = pc, !.user = u, !.sid = sid]

\* the response is sent: the handler's locals are gone, what stays is the
\* answer
Finish(r, res) ==
  [req EXCEPT ![r] = [IdleReq EXCEPT !.pc = "done", !.result = res]]

\* what a finalize request that ends in an error has done by then
Observed(r) == [debited |-> req[r].debited,
                job_inserted |-> req[r].job_inserted,
                status_written |-> req[r].status_written]

\* a finalize request that found credits available ends in an error: the
\* error is recorded with what the request had committed before
FinFail(r) ==
  [hist EXCEPT !.failed = IF req'[r].pc = "done" /\ req[r].has_credits
                          THEN @ \cup {Observed(r)} ELSE @]

\* ----------------------------------------------------------- finalize
\* api/sessions.py finalize_session, line 151
FinHasCredits(r) ==
  /\ req[r].kind = "finalize" /\ req[r].pc = "has_credits"
  /\ LET hc == HasCredits(credits, req[r].user, 1) IN
       req' = [req EXCEPT ![r].has_credits = hc,
                          ![r].pc = IF hc THEN "debit" ELSE "get_session"]
  /\ UNCHANGED <<credits, sessions, blocks, ai_jobs, pipelines, faults,
                 jobSeq, blockSeq, hist, otherVars>>

\* api/sessions.py line 155: CreditService.debit executes the conditional
\* UPDATE and commits it before returning
FinDebit(r) ==
  /\ req[r].kind = "finalize" /\ req[r].pc = "debit"
  /\ LET u  == req[r].user
         ok == DebitApplies(credits[u], SESSION_PROCESSING_COST) IN
       /\ credits' = DebitRow(credits, u, SESSION_PROCESSING_COST)
       /\ hist' = [hist EXCEPT !.debited[u] = IF ok THEN @ + 1 ELSE @,
                               !.paid = IF ok THEN @ \cup {req[r].sid} ELSE @]
       /\ req' = [req EXCEPT ![r].debit_success = ok, ![r].debited = ok,
                             ![r].pc = "get_session"]
  /\ UNCHANGED <<sessions, blocks, ai_jobs, pipelines, faults, jobSeq, blockSeq, otherVars>>

\* the commit inside debit fails: the exception leaves the inner try, the
\* handler answers 500 and the UPDATE is discarded with the transaction
FinDebitCommitFails(r) ==
  /\ req[r].kind = "finalize" /\ req[r].pc = "debit"
  /\ faults > 0
  /\ faults' = faults - 1
  /\ req' = Finish(r, "error_500")
  /\ hist' = [FinFail(r) EXCEPT !.dbFailed = TRUE]
  /\ UNCHANGED <<credits, sessions, blocks, ai_jobs, pipelines, jobSeq, blockSeq, otherVars>>

\* SessionService.finalize_session lines 220-225: load the row, check it
FinGetSession(r) ==
  /\ req[r].kind = "finalize" /\ req[r].pc = "get_session"
  /\ LET s == GetSession(sessions, req[r].sid, req[r].user) IN
       req' = IF s = "None" THEN Finish(r, "not_found")
              ELSE IF ~IsOpen(sessions[s]) THEN Finish(r, "state_conflict")
              ELSE [req EXCEPT ![r].pc = "select_blocks"]
  /\ hist' = FinFail(r)
  /\ UNCHANGED <<credits, sessions, blocks, ai_jobs, pipelines, faults,
                 jobSeq, blockSeq, otherVars>>

\* SessionService.finalize_session lines 228-234
FinSelectBlocks(r) ==
  /\ req[r].kind = "finalize" /\ req[r].pc = "select_blocks"
  /\ req' = IF SessionBlocks(blocks, req[r].sid) = {}
            THEN Finish(r, "state_conflict")
            ELSE [req EXCEPT ![r].pc = "commit"]
  /\ hist' = FinFail(r)
  /\ UNCHANGED <<credits, sessions, blocks, ai_jobs, pipelines, faults,
                 jobSeq, blockSeq, otherVars>>

\* the status write with its no-credit branch dropped
FinalStatusAlwaysAI(with_ai) == IF with_ai THEN PENDING_PROCESSING ELSE PENDING_PROCESSING

\* the status finalize_session writes (lines 237-240)
FinalStatus(with_ai) == IF with_ai THEN PENDING_PROCESSING ELSE NO_CREDITS

\* the AIJob of a finalize recorded with no credit used
FinalizeJobFree(id, u, sid) ==
  [id |-> id, user_id |-> u, session_id |-> sid, job_type |-> "session_processing",
   credits_used |-> 0, status |-> "pending"]

\* api/sessions.py lines 161-167: the AIJob a finalize with credit adds
FinalizeJob(id, u, sid) ==
  [id |-> id, user_id |-> u, session_id |-> sid, job_type |-> "session_processing",
   credits_used |-> 1, status |-> "pending"]

\* SessionService.finalize_session lines 237-243: the commit flushes the
\* pending AIJob (added at sessions.py 161-168 when the debit succeeded)
\* and the session row's new status and finalized_at
FinCommit(r) ==
  /\ req[r].kind = "finalize" /\ req[r].pc = "commit"
  /\ req[r].sid \in DOMAIN sessions
  /\ LET sid     == req[r].sid
         with_ai == req[r].debit_success
         job     == FinalizeJob(jobSeq + 1, req[r].user, sid) IN
       /\ sessions' = [sessions EXCEPT ![sid].status = FinalStatus(with_ai),
                                       ![sid].finalized_at = TRUE]
       /\ ai_jobs' = IF with_ai THEN ai_jobs \cup {job} ELSE ai_jobs
       /\ jobSeq' = IF with_ai THEN jobSeq + 1 ELSE jobSeq
       /\ req' = IF with_ai
                 THEN [req EXCEPT ![r].pc = "enqueue", ![r].job = jobSeq + 1,
                                  ![r].job_inserted = TRUE,
                                  ![r].status_written = TRUE]
                 ELSE IF req[r].has_credits
                      THEN Finish(r, "finalized_insufficient_credits")
                      ELSE Finish(r, "finalized_no_credits")
  /\ UNCHANGED <<credits, blocks, pipelines, faults, blockSeq, hist, otherVars>>

\* the commit of finalize_session fails: rollback (sessions.py 223-238 or
\* the outer handler), nothing of this transaction is stored
FinCommitFails(r) ==
  /\ req[r].kind = "finalize" /\ req[r].pc = "commit"
  /\ faults > 0
  /\ faults' = faults - 1
  /\ req' = Finish(r, "error_500")
  /\ hist' = [FinFail(r) EXCEPT !.dbFailed = TRUE]
  /\ UNCHANGED <<credits, sessions, blocks, ai_jobs, pipelines, jobSeq, blockSeq, otherVars>>

\* api/sessions.py lines 198-222: chain(...).delay(), then the 202 answer
FinEnqueue(r) ==
  /\ req[r].kind = "finalize" /\ req[r].pc = "enqueue"
  /\ pipelines' = pipelines \cup {Chain(req[r].sid, req[r].job)}
  /\ req' = Finish(r, "finalized_ai")
  /\ UNCHANGED <<credits, sessions, blocks, ai_jobs, faults, jobSeq, blockSeq, hist, otherVars>>

FinalizeStep(r) ==
  \/ FinHasCredits(r)
  \/ FinDebit(r)
  \/ FinGetSession(r)
  \/ FinSelectBlocks(r)
  \/ FinCommit(r)
  \/ FinEnqueue(r)

\* api/sessions.py lines 177-238: after the commit, db.refresh(ai_job) or
\* pipeline.delay() raises; the except branch rolls back (nothing is left to
\* roll back) and re-raises, the handler answers 500 and no chain is enqueued
FinEnqueueFails(r) ==
  /\ req[r].kind = "finalize" /\ req[r].pc = "enqueue"
  /\ faults > 0
  /\ faults' = faults - 1
  /\ req' = Finish(r, "error_500")
  /\ hist' = [FinFail(r) EXCEPT !.dbFailed = TRUE]
  /\ UNCHANGED <<credits, sessions, blocks, ai_jobs, pipelines, jobSeq, blockSeq, otherVars>>

FinalizeFault(r) ==
  \/ FinDebitCommitFails(r)
  \/ FinCommitFails(r)
  \/ FinEnqueueFails(r)

\* ------------------------------------------------------------- create
\* the fresh id generate_uuid gives the session a user creates; each user
\* creates one session
NewSessionId(u) == IF u = "u1" THEN "s1" ELSE "s2"

\* SessionService.create_session lines 101-157: one INSERT, committed
CreateSession(u) ==
  /\ NewSessionId(u) \notin DOMAIN sessions
  /\ sessions' = [sid \in DOMAIN sessions \cup {NewSessionId(u)} |->
                    IF sid \in DOMAIN sessions THEN sessions[sid]
                    ELSE [user_id |-> u, status |-> OPEN, finalized_at |-> FALSE,
                          processed_at |-> FALSE, ai_summary |-> "None",
                          suggested_title |-> "None"]]
  /\ UNCHANGED <<credits, faults, hist, blocks, ai_jobs, pipelines, req,
                 jobSeq, blockSeq, otherVars>>

\* requests that may still insert an AIJob / a block
JobRequests   == {r \in Reqs : req[r].kind \in {"finalize", "reprocess"} /\ req[r].pc # "done"}
BlockRequests == {r \in Reqs : req[r].kind = "append" /\ req[r].pc # "done"}

\* a new request is served by the first connection that is not busy
Free(r) ==
  /\ req[r].pc \in {"idle", "done"}
  /\ r = "r2" => req["r1"].pc \notin {"idle", "done"}

\* POST /sessions/{id}/finalize arrives
StartFinalize(r, u, sid) ==
  /\ Free(r)
  /\ jobSeq + Cardinality(JobRequests) < MaxJobs
  /\ req' = [req EXCEPT ![r] = NewReq("finalize", "has_credits", u, sid)]
  /\ UNCHANGED <<credits, faults, hist, sessions, blocks, ai_jobs, pipelines,
                 jobSeq, blockSeq, otherVars>>

\* ------------------------------------------------------------- append
\* models/session_block.py BlockType
BlockType == {"text", "voice", "image", "marker", "transcription_backend",
              "image_description"}

\* POST /sessions/{id}/blocks arrives; BlockCreate accepts a block_type that
\* is a member of BlockType and the request is refused otherwise
StartAppend(r, u, sid, block_type) ==
  /\ Free(r)
  /\ blockSeq + Cardinality(BlockRequests) < MaxBlocks
  /\ req' = IF block_type \in BlockType
            THEN [req EXCEPT ![r] = [NewReq("append", "get_session", u, sid)
                                       EXCEPT !.block_type = block_type]]
            ELSE Finish(r, "validation_error")
  /\ UNCHANGED <<credits, faults, hist, sessions, blocks, ai_jobs, pipelines,
                 jobSeq, blockSeq, otherVars>>

\* SessionService.add_block lines 187-192
AppGetSession(r) ==
  /\ req[r].kind = "append" /\ req[r].pc = "get_session"
  /\ LET s == GetSession(sessions, req[r].sid, req[r].user) IN
       req' = IF s = "None" THEN Finish(r, "not_found")
              ELSE IF ~IsOpen(sessions[s]) THEN Finish(r, "state_conflict")
              ELSE [req EXCEPT ![r].pc = "commit"]
  /\ UNCHANGED <<credits, faults, hist, sessions, blocks, ai_jobs, pipelines,
                 jobSeq, blockSeq, otherVars>>

\* SessionService.add_block lines 194-204: INSERT of the block, committed;
\* late records whether the session was still open when the block was stored
AppCommit(r) ==
  /\ req[r].kind = "append" /\ req[r].pc = "commit"
  /\ req[r].sid \in DOMAIN sessions
  /\ blocks' = blocks \cup {[id |-> blockSeq + 1, session_id |-> req[r].sid,
                             block_type |-> req[r].block_type, media_url |-> "None",
                             late |-> sessions[req[r].sid].status # OPEN,
                             chunks |-> 1]}
  /\ blockSeq' = blockSeq + 1
  /\ req' = Finish(r, "created")
  /\ UNCHANGED <<credits, faults, hist, sessions, ai_jobs, pipelines, jobSeq, otherVars>>

AppendStep(r) ==
  \/ AppGetSession(r)
  \/ AppCommit(r)

\* ---------------------------------------------------------- reprocess
\* POST /admin/reprocess-session arrives
StartReprocess(r, u, sid, force) ==
  /\ Free(r)
  /\ jobSeq + Cardinality(JobRequests) < MaxJobs
  /\ req' = [req EXCEPT ![r] = [NewReq("reprocess", "get_session", u, sid)
                                  EXCEPT !.force = force]]
  /\ UNCHANGED <<credits, faults, hist, sessions, blocks, ai_jobs, pipelines,
                 jobSeq, blockSeq, otherVars>>

\* api/admin.py lines 54-73: owner-scoped SELECT, then the only status check
RepGetSession(r) ==
  /\ req[r].kind = "reprocess" /\ req[r].pc = "get_session"
  /\ LET s == GetSession(sessions, req[r].sid, req[r].user) IN
       req' = IF s = "None" THEN Finish(r, "not_found")
              ELSE IF ~req[r].force /\ sessions[s].status = PROCESSED
                   THEN Finish(r, "already_processed")
              ELSE [req EXCEPT ![r].pc = "commit_job",
                               ![r].seen_status = sessions[s].status]
  /\ UNCHANGED <<credits, faults, hist, sessions, blocks, ai_jobs, pipelines,
                 jobSeq, blockSeq, otherVars>>

\* api/admin.py lines 76-85: INSERT of the new AIJob, committed
RepCommitJob(r) ==
  /\ req[r].kind = "reprocess" /\ req[r].pc = "commit_job"
  /\ ai_jobs' = ai_jobs \cup {[id |-> jobSeq + 1, user_id |-> req[r].user,
                               session_id |-> req[r].sid,
                               job_type |-> "session_reprocessing",
                               credits_used |-> 0, status |-> "pending"]}
  /\ jobSeq' = jobSeq + 1
  /\ req' = [req EXCEPT ![r].pc = "commit_status", ![r].job = jobSeq + 1,
                        ![r].job_inserted = TRUE]
  /\ UNCHANGED <<credits, faults, hist, sessions, blocks, pipelines, blockSeq, otherVars>>

\* api/admin.py lines 88-89: status set on the row loaded at line 60; the
\* flush writes the column only when the value differs from the loaded one
RepCommitStatus(r) ==
  /\ req[r].kind = "reprocess" /\ req[r].pc = "commit_status"
  /\ req[r].sid \in DOMAIN sessions
  /\ sessions' = IF req[r].seen_status # PENDING_PROCESSING
                 THEN [sessions EXCEPT ![req[r].sid].status = PENDING_PROCESSING]
                 ELSE sessions
  /\ req' = [req EXCEPT ![r].pc = "enqueue", ![r].status_written = TRUE]
  /\ UNCHANGED <<credits, faults, hist, blocks, ai_jobs, pipelines, jobSeq,
                 blockSeq, otherVars>>

\* api/admin.py lines 92-103
RepEnqueue(r) ==
  /\ req[r].kind = "reprocess" /\ req[r].pc = "enqueue"
  /\ pipelines' = pipelines \cup {Chain(req[r].sid, req[r].job)}
  /\ req' = Finish(r, "reprocessing")
  /\ UNCHANGED <<credits, faults, hist, sessions, blocks, ai_jobs, jobSeq,
                 blockSeq, otherVars>>

ReprocessStep(r) ==
  \/ RepGetSession(r)
  \/ RepCommitJob(r)
  \/ RepCommitStatus(r)
  \/ RepEnqueue(r)

\* ------------------------------------------------------------- delete
\* the WHERE clause of the media DELETE matching no row
MediaOfNone(md, sid) == {m \in DOMAIN md : md[m].session_id = sid /\ md[m].session_id # sid}

\* SessionService.delete_session lines 280-283: the media rows the statement
\* DELETE ... WHERE session_id = :sid matches
MediaOf(md, sid) == {m \in DOMAIN md : md[m].session_id = sid}

\* DELETE /sessions/{id} arrives
StartDelete(r, u, sid) ==
  /\ Free(r)
  /\ req' = [req EXCEPT ![r] = NewReq("delete", "get_session", u, sid)]
  /\ UNCHANGED <<credits, faults, hist, sessions, blocks, ai_jobs, pipelines,
                 jobSeq, blockSeq, otherVars>>

\* SessionService.delete_session lines 266-268: owner-scoped SELECT;
\* hist.again records a delete that found the session already deleted
DelGetSession(r) ==
  /\ req[r].kind = "delete" /\ req[r].pc = "get_session"
  /\ LET s == GetSession(sessions, req[r].sid, req[r].user) IN
       /\ req' = IF s = "None" THEN Finish(r, "not_found")
                 ELSE [req EXCEPT ![r].pc = "delete_rows"]
       /\ hist' = IF s = "None" /\ req[r].sid \in hist.deleted
                  THEN [hist EXCEPT !.again = @ \cup {req[r].sid}] ELSE hist
  /\ UNCHANGED <<credits, faults, sessions, blocks, ai_jobs, pipelines,
                 jobSeq, blockSeq, otherVars>>

\* SessionService.delete_session lines 271-283: the three DELETE statements
\* run inside the transaction; the media statement matches the rows that are
\* committed at this moment (media_files has no foreign key to sessions)
DelDeleteRows(r) ==
  /\ req[r].kind = "delete" /\ req[r].pc = "delete_rows"
  /\ req' = [req EXCEPT ![r].pc = "commit", ![r].doomed = MediaOf(media, req[r].sid)]
  /\ UNCHANGED <<credits, faults, hist, sessions, blocks, ai_jobs, pipelines,
                 jobSeq, blockSeq, otherVars>>

\* SessionService.delete_session lines 286-289: db.delete(session) and the
\* commit. The flush deletes the session's blocks (relationship cascade) and
\* the session row; the AIJob and embedding rows of the session go with it
\* (their foreign keys admit no row of a deleted session). A session row
\* already deleted by an overlapping request matches nothing, which the ORM
\* only warns about.
DelCommit(r) ==
  /\ req[r].kind = "delete" /\ req[r].pc = "commit"
  /\ LET sid == req[r].sid IN
       /\ sessions' = [x \in DOMAIN sessions \ {sid} |-> sessions[x]]
       /\ blocks' = blocks \ SessionBlocks(blocks, sid)
       /\ ai_jobs' = {j \in ai_jobs : j.session_id # sid}
       /\ embeddings' = {e \in embeddings : e.session_id # sid}
       /\ media' = [m \in DOMAIN media \ req[r].doomed |-> media[m]]
       /\ hist' = [hist EXCEPT !.deleted = @ \cup {sid}]
  /\ req' = Finish(r, "deleted")
  /\ UNCHANGED <<credits, faults, pipelines, jobSeq, blockSeq, payVars, objects,
                 up, srch, chunker, vision, settings, whisper>>

DeleteStep(r) ==
  \/ DelGetSession(r)
  \/ DelDeleteRows(r)
  \/ DelCommit(r)

\* -------------------------------------------------------- delete media
\* DELETE /sessions/{id}/media/{media_id} arrives
StartDeleteMedia(r, u, sid, m) ==
  /\ Free(r)
  /\ req' = [req EXCEPT ![r] = [NewReq("delete_media", "get_session", u, sid)
                                  EXCEPT !.mid = m]]
  /\ UNCHANGED <<credits, faults, hist, sessions, blocks, ai_jobs, pipelines,
                 jobSeq, blockSeq, otherVars>>

\* api/sessions.py lines 436-445: owner-scoped SELECT of the session
DmGetSession(r) ==
  /\ req[r].kind = "delete_media" /\ req[r].pc = "get_session"
  /\ req' = IF GetSession(sessions, req[r].sid, req[r].user) = "None"
            THEN Finish(r, "not_found")
            ELSE [req EXCEPT ![r].pc = "get_media"]
  /\ UNCHANGED <<credits, faults, hist, sessions, blocks, ai_jobs, pipelines,
                 jobSeq, blockSeq, otherVars>>

\* api/sessions.py lines 447-459: SELECT of the media row by id and session
DmGetMedia(r) ==
  /\ req[r].kind = "delete_media" /\ req[r].pc = "get_media"
  /\ req' = IF req[r].mid \in DOMAIN media /\ media[req[r].mid].session_id = req[r].sid
            THEN [req EXCEPT ![r].pc = "delete_object"]
            ELSE Finish(r, "media_not_found")
  /\ UNCHANGED <<credits, faults, hist, sessions, blocks, ai_jobs, pipelines,
                 jobSeq, blockSeq, otherVars>>

\* api/sessions.py lines 461-465: the object is removed from the bucket
DmDeleteObject(r) ==
  /\ req[r].kind = "delete_media" /\ req[r].pc = "delete_object"
  /\ objects' = objects \ {req[r].mid}
  /\ req' = [req EXCEPT ![r].pc = "commit"]
  /\ UNCHANGED <<credits, faults, hist, sessions, blocks, ai_jobs, pipelines,
                 jobSeq, blockSeq, payVars, media, up, searchVars>>

\* api/sessions.py lines 467-475: DELETE of the blocks whose media_url is the
\* media id (in whatever session), DELETE of the media row, commit
DmCommit(r) ==
  /\ req[r].kind = "delete_media" /\ req[r].pc = "commit"
  /\ blocks' = {b \in blocks : b.media_url # req[r].mid}
  /\ media' = [m \in DOMAIN media \ {req[r].mid} |-> media[m]]
  /\ req' = Finish(r, "deleted")
  /\ UNCHANGED <<credits, faults, hist, sessions, ai_jobs, pipelines,
                 jobSeq, blockSeq, payVars, objects, up, searchVars>>

DeleteMediaStep(r) ==
  \/ DmGetSession(r)
  \/ DmGetMedia(r)
  \/ DmDeleteObject(r)
  \/ DmCommit(r)

\* ------------------------------------------------------ pipeline worker
\* the run p moves on to stage st
SetStage(p, st) == (pipelines \ {p}) \cup {[p EXCEPT !.stage = st]}

\* the uploaded media rows of a session of one type (transcribe_audio.py
\* lines 172-178, process_images.py lines 198-204)
UploadedMedia(sid, type) ==
  {m \in DOMAIN media : /\ media[m].session_id = sid
                        /\ media[m].type = type
                        /\ media[m].status = "uploaded"}

MediaIdx(m) == IF m = "m1" THEN 1 ELSE 2

\* the block a stage stores for one media file
StageBlock(type, m) ==
  [id |-> blockSeq + MediaIdx(m), session_id |-> media[m].session_id,
   block_type |-> type, media_url |-> m, late |-> FALSE, chunks |-> 1]

\* a stage that turns media files into blocks: the files of ok are the ones
\* the provider handled; a missing session or no file stores nothing
MediaStage(p, type, block_type, next) ==
  /\ LET sid   == p.session_id
         files == IF sid \in DOMAIN sessions THEN UploadedMedia(sid, type) ELSE {} IN
       \E ok \in SUBSET files :
         /\ blocks' = blocks \cup {StageBlock(block_type, m) : m \in ok}
         /\ blockSeq' = IF ok = {} THEN blockSeq ELSE blockSeq + Cardinality(MediaIds)
  /\ pipelines' = (pipelines \ {p})
                    \cup {NextTask(p, ReturnedContext(p.session_id, p.ai_job_id), next)}
  /\ UNCHANGED <<credits, faults, hist, sessions, ai_jobs, req, jobSeq, otherVars>>

\* tasks/transcribe_audio.py _transcribe_audio_async: stage A
StageA(p) ==
  /\ p \in pipelines /\ p.stage = "A"
  /\ MediaStage(p, "audio", "transcription_backend", "B")

\* tasks/process_images.py _process_images_async: stage B
StageB(p) ==
  /\ p \in pipelines /\ p.stage = "B"
  /\ MediaStage(p, "image", "image_description", "C")

JobRow(id) == {j \in ai_jobs : j.id = id}

\* the job row with a new status
SetJobStatus(jobs, id, st) ==
  {IF j.id = id THEN [j EXCEPT !.status = st] ELSE j : j \in jobs}

\* generate_summary.py lines 122-142: the job and the session are loaded; a
\* missing job ends the stage, a missing session fails the job
CFetch(p) ==
  /\ p \in pipelines /\ p.stage = "C"
  /\ IF JobRow(p.ai_job_id) = {}
     THEN /\ pipelines' = SetStage(p, "done")
          /\ UNCHANGED ai_jobs
     ELSE IF p.session_id \notin DOMAIN sessions
     THEN /\ ai_jobs' = SetJobStatus(ai_jobs, p.ai_job_id, "failed")
          /\ pipelines' = SetStage(p, "done")
     ELSE /\ pipelines' = SetStage(p, "C_processing")
          /\ UNCHANGED ai_jobs
  /\ UNCHANGED <<credits, faults, hist, sessions, blocks, req, jobSeq, blockSeq, otherVars>>

\* generate_summary.py lines 145-146: status processing, committed, whatever
\* the status was; a row deleted meanwhile makes the UPDATE fail
CSetProcessing(p) ==
  /\ p \in pipelines /\ p.stage = "C_processing"
  /\ IF p.session_id \in DOMAIN sessions
     THEN /\ sessions' = [sessions EXCEPT ![p.session_id].status = PROCESSING]
          /\ pipelines' = SetStage(p, "C_work")
     ELSE /\ pipelines' = SetStage(p, "C_failed")
          /\ UNCHANGED sessions
  /\ UNCHANGED <<credits, faults, hist, blocks, ai_jobs, req, jobSeq, blockSeq, otherVars>>

\* generate_summary.py lines 184-192 and 262-275: the session has a block
\* of a type whose text goes into the summary and the title
TextBlockTypes == {"text", "transcription_backend", "image_description", "voice"}

HasText(sid) == \E b \in SessionBlocks(blocks, sid) : b.block_type \in TextBlockTypes

\* generate_summary.py lines 199 and 214
MAX_CHUNKS == 50
BATCH_SIZE == 10

Min(a, b) == IF a < b THEN a ELSE b

RECURSIVE SumChunks(_)
SumChunks(bs) ==
  IF bs = {} THEN 0
  ELSE LET b == CHOOSE x \in bs : TRUE IN b.chunks + SumChunks(bs \ {b})

\* generate_summary.py lines 184-196: the texts of the text-bearing blocks
\* are joined and chunked; chunks of a block tells how many chunks its text
\* adds
NumChunks(sid) ==
  SumChunks({b \in SessionBlocks(blocks, sid) : b.block_type \in TextBlockTypes})

\* the chunk list taken whole
LimitChunksNone(n) == n

\* generate_summary.py lines 199-206: text_chunks[:MAX_CHUNKS]
LimitChunks(n) == Min(n, MAX_CHUNKS)

\* EmbeddingRepository.create_embedding for c chunks of one batch (the
\* sessions of the worker scenarios speak of one subject)
NewEmbeddings(sid, c) ==
  {[id |-> Cardinality(embeddings) + k, session_id |-> sid,
    text |-> "quarterly planning"] : k \in 1..c}

\* generate_summary.py lines 149-257. The first step loads the blocks,
\* reads the embedding settings and chunks the text; every step embeds
\* one batch of at most BATCH_SIZE chunks, of which any number may fail (a
\* failure is logged and counted), and commits it. raw, total, batch_start
\* and attempted are the locals len(chunk_text(...)), len(text_chunks),
\* batch_start and embeddings_created + embeddings_failed.
CWork(p) ==
  /\ p \in pipelines /\ p.stage = "C_work"
  /\   LET first == p.total = -1
           raw   == IF first THEN NumChunks(p.session_id) ELSE p.raw
           total == IF first
                    THEN (IF EmbeddingsOn(settings) THEN LimitChunks(raw) ELSE 0)
                    ELSE p.total
           end   == Min(p.batch_start + BATCH_SIZE, total)
           len   == end - p.batch_start IN
         /\ \E c \in 0..len :
              embeddings' = embeddings \cup NewEmbeddings(p.session_id, c)
         /\ pipelines' = (pipelines \ {p})
                           \cup {[p EXCEPT !.total = total, !.raw = raw,
                                           !.batch_start = end,
                                           !.attempted = @ + len,
                                           !.stage = IF end >= total THEN "C_finish"
                                                     ELSE "C_work"]}
  /\ UNCHANGED <<credits, faults, hist, sessVarsButPipelines, payVars, mediaVars, srch, chunker, vision, settings, whisper>>

\* generate_summary.py lines 157-162 and 330: get_llm_provider raises for a
\* misconfigured provider, or a database call fails; the handler takes over
CRaise(p) ==
  /\ p \in pipelines /\ p.stage = "C_work"
  /\ pipelines' = (pipelines \ {p}) \cup {[p EXCEPT !.stage = "C_failed",
                                                     !.fault = "provider"]}
  /\ UNCHANGED <<credits, faults, hist, sessVarsButPipelines, otherVars>>

\* the session row without its processed mark
CompletedSessionUnmarked(row) == [row EXCEPT !.status = row.status]

\* generate_summary.py lines 302-304: the session is processed
CompletedSession(row) == [row EXCEPT !.status = PROCESSED, !.processed_at = TRUE]

\* the summary with no marker stored for a failed call
SummaryTextNoMarker(ok) == IF ok THEN "summary" ELSE "None"

\* generate_summary.py lines 278-285: the provider's summary, or the marker
\* "Falha ao gerar resumo: ..." when the call raised
SummaryText(ok) == IF ok THEN "summary" ELSE "failure_marker"

\* generate_summary.py lines 287-296: with text, the provider's title or the
\* fallback cut from the text when the call raised; without text the title
\* is left as it was
TitleText(old, has_text, ok) ==
  IF ~has_text THEN old ELSE IF ok THEN "title" ELSE "fallback"

\* generate_summary.py lines 262-306: summary and title are asked of the
\* provider (each call may raise, which is logged), then job completed and
\* session processed in one commit; if either row is gone the flush fails
\* and nothing is stored
CComplete(p) ==
  /\ p \in pipelines /\ p.stage = "C_finish"
  /\ IF JobRow(p.ai_job_id) # {} /\ p.session_id \in DOMAIN sessions
     THEN \E summary_ok \in BOOLEAN, title_ok \in BOOLEAN :
          /\ ai_jobs' = SetJobStatus(ai_jobs, p.ai_job_id, "completed")
          /\ sessions' = [sessions EXCEPT
                            ![p.session_id] =
                               [CompletedSession(sessions[p.session_id]) EXCEPT
                                  !.ai_summary = SummaryText(summary_ok),
                                  !.suggested_title =
                                     TitleText(@, HasText(p.session_id), title_ok)]]
          /\ pipelines' = SetStage(p, "done")
     ELSE /\ pipelines' = SetStage(p, "C_failed")
          /\ UNCHANGED <<ai_jobs, sessions>>
  /\ UNCHANGED <<credits, faults, hist, blocks, req, jobSeq, blockSeq, otherVars>>

\* generate_summary.py lines 330-351: in a fresh database session the job
\* and the session, where they exist, are marked failed and committed
CFail(p) ==
  /\ p \in pipelines /\ p.stage = "C_failed"
  /\ ai_jobs' = SetJobStatus(ai_jobs, p.ai_job_id, "failed")
  /\ sessions' = IF p.session_id \in DOMAIN sessions
                 THEN [sessions EXCEPT ![p.session_id].status = FAILED]
                 ELSE sessions
  /\ pipelines' = SetStage(p, "done")
  /\ UNCHANGED <<credits, faults, hist, blocks, req, jobSeq, blockSeq, otherVars>>

\* the run p meets the failure f and moves on to stage st
FailStage(p, f, st) == (pipelines \ {p}) \cup {[p EXCEPT !.stage = st, !.fault = f]}

\* transcribe_audio.py lines 316-329: the commit of the transcriptions
\* fails; the except branch logs and returns the context, nothing is stored
\* and the chain goes on
StageACommitFails(p) ==
  /\ p \in pipelines /\ p.stage = "A"
  /\ p.session_id \in DOMAIN sessions
  /\ UploadedMedia(p.session_id, "audio") # {}
  /\ faults > 0
  /\ faults' = faults - 1
  /\ pipelines' = (pipelines \ {p})
                    \cup {NextTask([p EXCEPT !.fault = "A"],
                                   ReturnedContext(p.session_id, p.ai_job_id), "B")}
  /\ UNCHANGED <<credits, hist, sessVarsButPipelines, otherVars>>

\* process_images.py lines 277-293: the commit of one description fails; it
\* is rolled back and the loop goes on with the other images
StageBCommitFails(p) ==
  /\ p \in pipelines /\ p.stage = "B"
  /\ p.session_id \in DOMAIN sessions
  /\ faults > 0
  /\ faults' = faults - 1
  /\ \E lost \in UploadedMedia(p.session_id, "image") :
       \E ok \in SUBSET (UploadedMedia(p.session_id, "image") \ {lost}) :
         /\ blocks' = blocks \cup {StageBlock("image_description", m) : m \in ok}
         /\ blockSeq' = IF ok = {} THEN blockSeq ELSE blockSeq + Cardinality(MediaIds)
  /\ pipelines' = (pipelines \ {p})
                    \cup {NextTask([p EXCEPT !.fault = "B"],
                                   ReturnedContext(p.session_id, p.ai_job_id), "C")}
  /\ UNCHANGED <<credits, hist, sessions, ai_jobs, req, jobSeq, otherVars>>

\* generate_summary.py lines 146, 245, 306 and 330: a commit of stage C
\* fails, the except branch takes over
CCommitFails(p) ==
  /\ p \in pipelines /\ p.stage \in {"C_processing", "C_work", "C_finish"}
  /\ faults > 0
  /\ faults' = faults - 1
  /\ pipelines' = FailStage(p, "C", "C_failed")
  /\ UNCHANGED <<credits, hist, sessVarsButPipelines, otherVars>>

\* generate_summary.py lines 334-351 and 96-98: the commit of the except
\* branch fails too; the exception reaches the task wrapper, which logs it
\* and returns the context
CFailCommitFails(p) ==
  /\ p \in pipelines /\ p.stage = "C_failed"
  /\ faults > 0
  /\ faults' = faults - 1
  /\ pipelines' = SetStage(p, "done")
  /\ UNCHANGED <<credits, hist, sessVarsButPipelines, otherVars>>

\* workers/celery_app.py line 42, task_time_limit: the task of the run has
\* been running for 30 minutes and the pool kills the process executing it.
\* No except branch runs, what the task had committed stays (stage B commits
\* each description as it goes), and the rest of the chain is never called.
Kill(p) ==
  /\ p \in pipelines /\ p.stage \notin {"done", "killed"}
  /\ LET files == IF p.stage = "B" /\ p.session_id \in DOMAIN sessions
                  THEN UploadedMedia(p.session_id, "image") ELSE {} IN
       \E ok \in SUBSET files :
         /\ blocks' = blocks \cup {StageBlock("image_description", m) : m \in ok}
         /\ blockSeq' = IF ok = {} THEN blockSeq ELSE blockSeq + Cardinality(MediaIds)
  /\ pipelines' = FailStage(p, "time_limit", "killed")
  /\ UNCHANGED <<credits, faults, hist, sessions, ai_jobs, req, jobSeq, otherVars>>

\* how far a run has come: the task of stage A, B or C, or past them
StageRank(st) ==
  CASE st = "A" -> 1
    [] st = "B" -> 2
    [] st \in {"C", "C_processing", "C_work", "C_finish", "C_failed"} -> 3
    [] OTHER -> 4

\* the broker delivers again the message of a stage task that a worker has
\* already taken (celery_app.py sets no acknowledgement or deduplication
\* option); the message carries the same arguments and the rest of the
\* chain, so the stage and the stages after it run once more
Redeliver(p, st) ==
  /\ p \in pipelines /\ p.copy = 1 /\ p.stage # "killed"
  /\ st \in {"A", "B", "C"}
  /\ StageRank(st) < StageRank(p.stage) \/ (st = "C" /\ p.stage \notin {"A", "B", "C"})
  /\ Cardinality({q \in pipelines : q.copy > 1}) < MaxRedeliveries
  /\ pipelines' = pipelines \cup
       {[p EXCEPT !.stage = st, !.fault = "none", !.total = -1, !.raw = 0,
                  !.batch_start = 0, !.attempted = 0,
                  !.copy = 2 + Cardinality({q \in pipelines : q.copy > 1})]}
  /\ UNCHANGED <<credits, faults, hist, sessVarsButPipelines, otherVars>>

WorkerFault(p) ==
  \/ StageACommitFails(p)
  \/ StageBCommitFails(p)
  \/ CCommitFails(p)
  \/ CFailCommitFails(p)

WorkerStep(p) ==
  \/ StageA(p)
  \/ StageB(p)
  \/ CFetch(p)
  \/ CSetProcessing(p)
  \/ CWork(p)
  \/ CRaise(p)
  \/ CComplete(p)
  \/ CFail(p)

\* ------------------------------------------------------------ payments
\* models/payment.py Payment; kind tells which external handle the row was
\* created with: create_checkout_session stores the checkout-session id,
\* create_payment_intent stores the intent id
AbsentPayment == [kind |-> "absent", user_id |-> "u1", credits_amount |-> 0,
                  status |-> "pending", completed_at |-> 0, intent_known |-> FALSE]

PendingPayment(kind, u, n) ==
  [kind |-> kind, user_id |-> u, credits_amount |-> n, status |-> "pending",
   completed_at |-> 0, intent_known |-> (kind = "intent")]

EventTypes == {"checkout.session.completed", "payment_intent.succeeded",
               "checkout.session.expired", "payment_intent.payment_failed"}

IdleDelivery == [pc |-> "idle", type |-> "checkout.session.expired", pid |-> "p1",
                 result |-> "none", secret |-> TRUE, signature |-> "valid"]

\* the stripe-signature header of a delivery: absent, not matching the body
\* under the configured secret, or matching it
Signatures == {"missing", "invalid", "valid"}

\* the verification letting a non-matching signature through
CheckSignatureLax(secret, signature) ==
  IF ~secret THEN "error_500"
  ELSE IF signature = "missing" THEN "error_400"
  ELSE "accepted"

\* webhooks.py lines 50-84: no configured secret is a 500, a missing header
\* a 400, and construct_event raises (400) unless the signature validates
CheckSignature(secret, signature) ==
  IF ~secret THEN "error_500"
  ELSE IF signature = "missing" THEN "error_400"
  ELSE IF signature # "valid" THEN "error_400"
  ELSE "accepted"

WhFinish(d, res) == [wh EXCEPT ![d].pc = "done", ![d].result = res]

\* the metadata {user_id, credits} Stripe sends back: it is attached to the
\* checkout session by create_checkout_session and to the payment intent by
\* create_payment_intent, so an intent event of a checkout payment has none
HasMetadata(type, row) ==
  \/ type = "checkout.session.completed" /\ row.kind = "checkout"
  \/ type = "payment_intent.succeeded" /\ row.kind = "intent"

\* SELECT Payment WHERE stripe_checkout_session_id = ... (mark_payment_completed)
FindByCheckout(ps, p) == IF ps[p].kind = "checkout" THEN p ELSE "None"

\* SELECT Payment WHERE stripe_payment_intent_id = ...
FindByIntent(ps, p) ==
  IF ps[p].kind # "absent" /\ ps[p].intent_known THEN p ELSE "None"

\* the idempotency check passing completed rows on
MarkCompletedAgain(ps, found) ==
  IF found = "None" THEN "None"
  ELSE IF ps[found].status = "completed" THEN found
  ELSE found

\* the idempotency check of mark_payment_completed(_by_intent): None when the
\* row is missing or already completed, the row otherwise
MarkCompleted(ps, found) ==
  IF found = "None" THEN "None"
  ELSE IF ps[found].status = "completed" THEN "None"
  ELSE found

\* a signed event arrives (webhooks.py 50-84 accept it)
WhStart(d, type, p) ==
  /\ wh[d].pc \in {"idle", "done"}
  /\ hist.deliveries < MaxDeliveries
  /\ payments[p].kind # "absent"
  /\ CheckSignature(TRUE, "valid") = "accepted"
  /\ wh' = [wh EXCEPT ![d] = [IdleDelivery EXCEPT !.pc = "dispatch", !.type = type,
                                                  !.pid = p]]
  /\ hist' = [hist EXCEPT !.deliveries = @ + 1]
  /\ UNCHANGED <<credits, faults, sessVars, payments, clock, mediaVars, searchVars>>

\* a request arrives that is not a validly signed one, or arrives while no
\* secret is configured (webhooks.py 50-84): it is answered with the error of
\* the check, before any event handling
WhUnsigned(d, type, p, secret, signature) ==
  /\ wh[d].pc \in {"idle", "done"}
  /\ hist.deliveries < MaxDeliveries
  /\ payments[p].kind # "absent"
  /\ ~(secret /\ signature = "valid")
  /\ LET answer == CheckSignature(secret, signature) IN
       wh' = IF answer = "accepted"
             THEN [wh EXCEPT ![d] = [IdleDelivery EXCEPT !.pc = "dispatch",
                                       !.type = type, !.pid = p, !.secret = secret,
                                       !.signature = signature]]
             ELSE [wh EXCEPT ![d] = [IdleDelivery EXCEPT !.pc = "done",
                                       !.result = answer]]
  /\ hist' = [hist EXCEPT !.deliveries = @ + 1]
  /\ UNCHANGED <<credits, faults, sessVars, payments, clock, mediaVars, searchVars>>

\* webhooks.py 87-118 / 156-186: metadata check and SELECT of the user
WhSelectUser(d) ==
  /\ wh[d].pc = "dispatch"
  /\ wh[d].type \in {"checkout.session.completed", "payment_intent.succeeded"}
  /\ wh' = IF ~HasMetadata(wh[d].type, payments[wh[d].pid])
           THEN WhFinish(d, "ignored")
           ELSE [wh EXCEPT ![d].pc = "mark_completed"]
  /\ UNCHANGED <<credits, faults, hist, sessVars, payments, clock, mediaVars, searchVars>>

\* webhooks.py 122-134 / 189-200: mark_payment_completed(_by_intent) loads the
\* row and sets status and completed_at on the loaded object, unflushed
WhMarkCompleted(d) ==
  /\ wh[d].pc = "mark_completed"
  /\ LET found == IF wh[d].type = "checkout.session.completed"
                  THEN FindByCheckout(payments, wh[d].pid)
                  ELSE FindByIntent(payments, wh[d].pid) IN
       wh' = IF MarkCompleted(payments, found) = "None"
             THEN WhFinish(d, "already_processed")
             ELSE [wh EXCEPT ![d].pc = "credit"]
  /\ UNCHANGED <<credits, faults, hist, sessVars, payments, clock, mediaVars, searchVars>>

\* webhooks.py 137-149 / 203-215: CreditService.credit increments the balance
\* and commits; the commit flushes the row's status and completed_at
WhCredit(d) ==
  /\ wh[d].pc = "credit"
  /\ LET p == wh[d].pid
         u == payments[p].user_id
         n == payments[p].credits_amount IN
       /\ credits' = CreditRow(credits, u, n)
       /\ payments' = [payments EXCEPT ![p].status = "completed",
                                       ![p].completed_at = clock + 1,
                                       ![p].intent_known = TRUE]
       /\ hist' = [hist EXCEPT !.credited[u] = @ + n, !.grants[p] = @ + 1]
  /\ clock' = clock + 1
  /\ wh' = WhFinish(d, "success")
  /\ UNCHANGED <<faults, sessVars, mediaVars, searchVars>>

\* the commit inside credit fails (webhooks.py 150-153 / 216-219): the handler
\* rolls back, answers status error, and nothing of the transaction is stored
WhCreditCommitFails(d) ==
  /\ wh[d].pc = "credit"
  /\ faults > 0
  /\ faults' = faults - 1
  /\ hist' = [hist EXCEPT !.dbFailed = TRUE]
  /\ wh' = WhFinish(d, "error")
  /\ UNCHANGED <<credits, sessVars, payments, clock, mediaVars, searchVars>>

\* webhooks.py 222-226
WhExpired(d) ==
  /\ wh[d].pc = "dispatch"
  /\ wh[d].type = "checkout.session.expired"
  /\ wh' = WhFinish(d, "logged")
  /\ UNCHANGED <<credits, faults, hist, sessVars, payments, clock, mediaVars, searchVars>>

\* webhooks.py 228-243: SELECT by intent id and the pending check
WhFailedSelect(d) ==
  /\ wh[d].pc = "dispatch"
  /\ wh[d].type = "payment_intent.payment_failed"
  /\ LET found == FindByIntent(payments, wh[d].pid) IN
       wh' = IF found # "None" /\ payments[found].status = "pending"
             THEN [wh EXCEPT ![d].pc = "fail_commit"]
             ELSE WhFinish(d, "logged")
  /\ UNCHANGED <<credits, faults, hist, sessVars, payments, clock, mediaVars, searchVars>>

\* webhooks.py 244-248: the commit flushes status = failed
WhFailedCommit(d) ==
  /\ wh[d].pc = "fail_commit"
  /\ payments' = [payments EXCEPT ![wh[d].pid].status = "failed"]
  /\ wh' = WhFinish(d, "logged")
  /\ UNCHANGED <<credits, faults, hist, sessVars, clock, mediaVars, searchVars>>

WebhookStep(d) ==
  \/ \E type \in EventTypes, p \in PaymentIds : WhStart(d, type, p)
  \/ WhSelectUser(d)
  \/ WhMarkCompleted(d)
  \/ WhCredit(d)
  \/ WhExpired(d)
  \/ WhFailedSelect(d)
  \/ WhFailedCommit(d)

\* -------------------------------------------------------------- uploads
\* storage/presign.py ALLOWED_CONTENT_TYPES
AllowedContentTypes(media_type) ==
  IF media_type = "audio"
  THEN {"audio/m4a", "audio/mp4", "audio/mpeg", "audio/mp3", "audio/wav",
        "audio/webm", "audio/ogg", "audio/aac"}
  ELSE IF media_type = "image"
  THEN {"image/jpeg", "image/jpg", "image/png", "image/webp", "image/heic",
        "image/heif"}
  ELSE {}

\* str.lower() on the strings the modelled clients send
Lower(s) ==
  CASE s = "AUDIO/M4A" -> "audio/m4a"
    [] s = "Image"     -> "image"
    [] OTHER           -> s

\* api/uploads.py lines 128-134: MediaType(request.type.lower()) succeeds
MediaTypes == {"audio", "image"}

\* validate_content_type looking the content type up under every kind
ValidateContentTypeAnyKind(media_type, content_type) ==
  Lower(content_type) \in AllowedContentTypes("audio") \cup AllowedContentTypes("image")

\* PresignService.validate_content_type (lines 69-82): the lower-cased
\* content type is looked up in the list of the kind
ValidateContentType(media_type, content_type) ==
  Lower(content_type) \in AllowedContentTypes(media_type)

\* storage/presign.py CONTENT_TYPE_EXTENSIONS and get_extension
GetExtension(content_type) ==
  LET ct == Lower(content_type) IN
  CASE ct \in {"audio/m4a", "audio/mp4"}   -> "m4a"
    [] ct \in {"audio/mpeg", "audio/mp3"}  -> "mp3"
    [] ct = "audio/wav"                    -> "wav"
    [] ct = "audio/webm"                   -> "webm"
    [] ct = "audio/ogg"                    -> "ogg"
    [] ct = "audio/aac"                    -> "aac"
    [] ct \in {"image/jpeg", "image/jpg"}  -> "jpg"
    [] ct = "image/png"                    -> "png"
    [] ct = "image/webp"                   -> "webp"
    [] ct = "image/heic"                   -> "heic"
    [] ct = "image/heif"                   -> "heif"
    [] OTHER                               -> "bin"

\* PresignService.generate_object_key: sessions/{session_id}/{type}/{uuid}.{ext},
\* the four parts kept apart; file_uuid is the fresh uuid4
GenerateObjectKey(session_id, media_type, content_type, file_uuid) ==
  [session_id |-> session_id, folder |-> media_type, uuid |-> file_uuid,
   ext |-> GetExtension(content_type)]

\* the (type, content_type) pairs the modelled clients send: one accepted and
\* one that validate_content_type refuses
SentUploads == {<<"audio", "audio/m4a">>, <<"audio", "image/png">>}

\* the kinds and content types sent where presign is studied alone: other
\* spellings, a kind that is no MediaType, a content type of no list
PresignKinds == {"audio", "image", "Image", "video"}
PresignContentTypes == {"audio/m4a", "AUDIO/M4A", "image/png", "image/jpg", "text/plain"}

\* the R2 client as the request finds it: configured and signing, not
\* configured, or failing to sign the URL
StorageStates == {"ok", "not_configured", "url_failed"}

IdleUpload == [kind |-> "none", pc |-> "idle", user |-> "u1", sid |-> "s1",
               media_type |-> "audio", content_type |-> "audio/m4a",
               mid |-> "m1", size |-> "None", result |-> "none", storage |-> "ok"]

UpFinish(r, res) == [up EXCEPT ![r] = [IdleUpload EXCEPT !.pc = "done", !.result = res]]

\* requests take the first free slot
UpFree(r) ==
  /\ up[r].pc \in {"idle", "done"}
  /\ \A q \in Reqs : (q = "r1" /\ r = "r2") => up[q].pc \notin {"idle", "done"}

\* the fresh id generate_uuid gives the next media row
NewMediaId == IF "m1" \notin DOMAIN media THEN "m1" ELSE "m2"

\* POST /uploads/presign arrives
StartPresign(r, u, sid, media_type, content_type, storage) ==
  /\ UpFree(r)
  /\ DOMAIN media # MediaIds
  /\ \A q \in Reqs : ~(up[q].kind = "presign" /\ up[q].pc # "done")
  /\ up' = [up EXCEPT ![r] = [IdleUpload EXCEPT !.kind = "presign",
                                !.pc = "get_session", !.user = u, !.sid = sid,
                                !.media_type = media_type,
                                !.content_type = content_type,
                                !.storage = storage]]
  /\ UNCHANGED <<credits, faults, hist, sessVars, payVars, media, objects, searchVars>>

\* api/uploads.py lines 128-150: the kind is parsed (400 when it is no
\* MediaType), then the owner-scoped SELECT of the session
PresignGetSession(r) ==
  /\ up[r].kind = "presign" /\ up[r].pc = "get_session"
  /\ up' = IF Lower(up[r].media_type) \notin MediaTypes
           THEN UpFinish(r, "invalid_media_type")
           ELSE IF GetSession(sessions, up[r].sid, up[r].user) = "None"
           THEN UpFinish(r, "not_found")
           ELSE [up EXCEPT ![r].pc = "create"]
  /\ UNCHANGED <<credits, faults, hist, sessVars, payVars, media, objects, searchVars>>

\* PresignService.create_presigned_upload lines 147-184: content-type check,
\* object key, presigned URL, INSERT of the pending row, committed
PresignCreate(r) ==
  /\ up[r].kind = "presign" /\ up[r].pc = "create"
  /\ IF ~ValidateContentType(Lower(up[r].media_type), up[r].content_type)
     THEN /\ up' = UpFinish(r, "invalid_content_type")
          /\ UNCHANGED media
     ELSE IF up[r].storage = "not_configured"
     THEN /\ up' = UpFinish(r, "storage_not_configured")
          /\ UNCHANGED media
     ELSE IF up[r].storage = "url_failed"
     THEN /\ up' = UpFinish(r, "url_failed")
          /\ UNCHANGED media
     ELSE /\ media' = [m \in DOMAIN media \cup {NewMediaId} |->
                         IF m \in DOMAIN media THEN media[m]
                         ELSE [session_id |-> up[r].sid,
                               type |-> Lower(up[r].media_type),
                               object_key |-> GenerateObjectKey(up[r].sid,
                                                Lower(up[r].media_type),
                                                up[r].content_type, NewMediaId),
                               content_type |-> up[r].content_type,
                               status |-> "pending", size_bytes |-> "None",
                               stored_at_commit |-> FALSE, committed_by |-> "nobody"]]
          /\ up' = UpFinish(r, "presigned")
  /\ UNCHANGED <<credits, faults, hist, sessVars, payVars, objects, searchVars>>

\* the client PUTs the file to the presigned URL of a media row
ClientPut(m) ==
  /\ m \in DOMAIN media
  /\ m \notin objects
  /\ objects' = objects \cup {m}
  /\ UNCHANGED <<credits, faults, hist, sessVars, payVars, media, up, searchVars>>

\* POST /uploads/commit arrives
StartCommit(r, u, m, size) ==
  /\ UpFree(r)
  /\ up' = [up EXCEPT ![r] = [IdleUpload EXCEPT !.kind = "commit", !.pc = "get_media",
                                !.user = u, !.mid = m, !.size = size]]
  /\ UNCHANGED <<credits, faults, hist, sessVars, payVars, media, objects, searchVars>>

\* the already-committed check answering no for every row
AlreadyCommittedNever(row) == row.status = "uploaded" /\ row.status = "pending"

\* PresignService.commit_upload line 217: the already-committed check
AlreadyCommitted(row) == row.status = "uploaded"

\* PresignService.commit_upload lines 208-218: SELECT by media id alone, the
\* user_id argument is not consulted; an uploaded row is answered with success
\* at once (hist.recommitted records that this happened)
CommitGetMedia(r) ==
  /\ up[r].kind = "commit" /\ up[r].pc = "get_media"
  /\ up' = IF up[r].mid \notin DOMAIN media THEN UpFinish(r, "media_not_found")
           ELSE IF AlreadyCommitted(media[up[r].mid]) THEN UpFinish(r, "committed")
           ELSE [up EXCEPT ![r].pc = "write"]
  /\ hist' = IF up[r].mid \in DOMAIN media /\ AlreadyCommitted(media[up[r].mid])
             THEN [hist EXCEPT !.recommitted = TRUE] ELSE hist
  /\ UNCHANGED <<credits, faults, sessVars, payVars, media, objects, searchVars>>

\* PresignService.commit_upload lines 221-229: status and size are set on the
\* loaded row and committed; stored_at_commit and committed_by record what
\* the bucket held and who asked at that moment
CommitWrite(r) ==
  /\ up[r].kind = "commit" /\ up[r].pc = "write"
  /\ up[r].mid \in DOMAIN media
  /\ media' = [media EXCEPT ![up[r].mid].status = "uploaded",
                            ![up[r].mid].size_bytes = IF up[r].size # "None" THEN up[r].size ELSE @,
                            ![up[r].mid].stored_at_commit = (up[r].mid \in objects),
                            ![up[r].mid].committed_by = up[r].user]
  /\ up' = UpFinish(r, "committed")
  /\ UNCHANGED <<credits, faults, hist, sessVars, payVars, objects, searchVars>>

UploadStep(r) ==
  \/ \E u \in Users, sid \in SessionIds, t \in SentUploads :
       StartPresign(r, u, sid, t[1], t[2], "ok")
  \/ PresignGetSession(r)
  \/ PresignCreate(r)
  \/ \E u \in Users, m \in MediaIds, size \in {"None", "1024"} : StartCommit(r, u, m, size)
  \/ CommitGetMedia(r)
  \/ CommitWrite(r)

\* ------------------------------------------------------------ chunking
\* utils/text_chunker.py chunk_text; a text is a sequence of characters and
\* positions are Python's (from 0)
Chars == {"a", " ", ".", "\n"}

Whitespace == {" ", "\n"}

Texts4 == UNION {[1..n -> Chars] : n \in 0..MaxTextLen}

RECURSIVE LStrip(_)
LStrip(s) == IF s = << >> THEN s
             ELSE IF Head(s) \in Whitespace THEN LStrip(Tail(s)) ELSE s

RECURSIVE RStrip(_)
RStrip(s) == IF s = << >> THEN s
             ELSE IF s[Len(s)] \in Whitespace THEN RStrip(SubSeq(s, 1, Len(s) - 1)) ELSE s

\* str.strip()
Strip(s) == RStrip(LStrip(s))

\* text[a:b]
Slice(text, a, b) == SubSeq(text, a + 1, IF b < Len(text) THEN b ELSE Len(text))

\* text.rfind(pat, start, end): the highest position in start..end-len(pat)
\* where pat occurs, or -1
RFind(text, pat, start, end) ==
  LET hits == {i \in start..(end - Len(pat)) :
                 i + Len(pat) <= Len(text) /\ SubSeq(text, i + 1, i + Len(pat)) = pat}
  IN  IF hits = {} THEN 0 - 1 ELSE CHOOSE i \in hits : \A k \in hits : k <= i

\* line 55: the sentence endings, in the order they are tried
SentenceEnds == << <<".", " ">>, <<".", "\n">>, <<"!", " ">>, <<"!", "\n">>,
                   <<"?", " ">>, <<"?", "\n">> >>

\* lines 52-59: the break after the first kind of sentence ending found
SentenceBreak(text, start, end) ==
  LET found == {k \in 1..Len(SentenceEnds) :
                  RFind(text, SentenceEnds[k], start, end) # 0 - 1}
  IN  IF found = {} THEN end
      ELSE LET k == CHOOSE x \in found : \A y \in found : x <= y
           IN  RFind(text, SentenceEnds[k], start, end) + Len(SentenceEnds[k])

\* lines 61-65 and 67-71: a break after the last pat, tried only while the
\* break point is still end
BreakAfter(text, pat, start, end, bp) ==
  IF bp = end /\ RFind(text, pat, start, end) # 0 - 1
  THEN RFind(text, pat, start, end) + 1
  ELSE bp

\* lines 52-71
BreakPoint(text, start, end) ==
  BreakAfter(text, <<" ">>, start, end,
    BreakAfter(text, <<"\n">>, start, end, SentenceBreak(text, start, end)))

\* lines 79-81
NextStart(break_point, overlap) ==
  IF break_point - overlap < 0 THEN 0 ELSE break_point - overlap

IdleChunker == [pc |-> "idle", text |-> << >>, chunk_size |-> 1, overlap |-> 0,
                start |-> 0, chunks |-> 0, iterations |-> 0]

\* chunk_text is called (lines 29-37): an empty or blank text gives no chunk,
\* a text of at most chunk_size one chunk, any other text enters the loop
ChunkCall(text, chunk_size, overlap) ==
  /\ chunker.pc = "idle"
  /\ chunker' = [IdleChunker EXCEPT
                   !.text = text, !.chunk_size = chunk_size, !.overlap = overlap,
                   !.pc = IF Strip(text) = << >> \/ Len(text) <= chunk_size
                          THEN "done" ELSE "loop",
                   !.chunks = IF Strip(text) = << >> THEN 0
                              ELSE IF Len(text) <= chunk_size THEN 1 ELSE 0]
  /\ UNCHANGED <<credits, faults, hist, sessVars, payVars, mediaVars, embeddings, srch, vision, settings, whisper>>

\* one iteration of the while loop (lines 39-81); the loop is followed for
\* at most MaxTextLen + 2 iterations
ChunkLoop ==
  /\ chunker.pc = "loop"
  /\ chunker.iterations < MaxTextLen + 2
  /\ LET text  == chunker.text
         start == chunker.start
         end   == start + chunker.chunk_size
         bp    == BreakPoint(text, start, end)
     IN  IF start >= Len(text)
         THEN chunker' = [chunker EXCEPT !.pc = "done"]
         ELSE IF end >= Len(text)
         THEN chunker' = [chunker EXCEPT
                            !.pc = "done",
                            !.iterations = @ + 1,
                            !.chunks = IF Strip(Slice(text, start, Len(text))) # << >>
                                       THEN @ + 1 ELSE @]
         ELSE chunker' = [chunker EXCEPT
                            !.iterations = @ + 1,
                            !.chunks = IF Strip(Slice(text, start, bp)) # << >>
                                       THEN @ + 1 ELSE @,
                            !.start = NextStart(bp, chunker.overlap)]
  /\ UNCHANGED <<credits, faults, hist, sessVars, payVars, mediaVars, embeddings, srch, vision, settings, whisper>>

\* -------------------------------------------------------------- vision
\* ai/vision_provider.py lines 37-38
GROQ_VISION_MODEL   == "meta-llama/llama-4-scout-17b-16e-instruct"
OPENAI_VISION_MODEL == "gpt-4o-mini"

\* VisionProvider.__init__ (lines 31-54) for the two API keys being set or
\* not; the last four fields log the latest describe_image call
NewVisionProvider(groq_api_key, openai_api_key) ==
  [groq_client    |-> groq_api_key,
   openai_api_key |-> openai_api_key,
   client         |-> (~groq_api_key /\ openai_api_key),
   vision_model   |-> IF groq_api_key THEN GROQ_VISION_MODEL
                      ELSE IF openai_api_key THEN OPENAI_VISION_MODEL
                      ELSE GROQ_VISION_MODEL,
   calls          |-> 0,
   image          |-> "m1",
   via            |-> "url",
   primary_model  |-> "none",
   primary_result |-> "not_called",
   served_by      |-> "none"]

\* the Groq API answers a request only for a model it serves
GroqAnswers(model, groq_up) == groq_up /\ model = GROQ_VISION_MODEL

\* VisionProvider.describe_image_from_url (lines 125-229, via = "url") and
\* VisionProvider.describe_image (lines 299-341, via = "file"), which share
\* their provider logic, for one image; groq_up and openai_up tell whether
\* each service is able to answer this call
DescribeImage(image, via, groq_up, openai_up) ==
  /\ vision.calls < MaxCalls
  /\ vision.groq_client \/ vision.client
  /\ LET v == [vision EXCEPT !.calls = @ + 1, !.image = image, !.via = via] IN
       vision' =
         IF vision.groq_client
         THEN IF GroqAnswers(vision.vision_model, groq_up)
              THEN [v EXCEPT !.primary_model = vision.vision_model,
                             !.primary_result = "ok", !.served_by = "groq"]
              ELSE IF vision.openai_api_key
              THEN [v EXCEPT !.primary_model = vision.vision_model,
                             !.primary_result = "failed",
                             !.client = TRUE,
                             !.vision_model = OPENAI_VISION_MODEL,
                             !.served_by = IF openai_up THEN "openai" ELSE "raised"]
              ELSE [v EXCEPT !.primary_model = vision.vision_model,
                             !.primary_result = "failed", !.served_by = "raised"]
         ELSE [v EXCEPT !.primary_model = "none", !.primary_result = "not_called",
                        !.served_by = IF openai_up THEN "openai" ELSE "raised"]
  /\ UNCHANGED <<credits, faults, hist, sessVars, payVars, mediaVars, embeddings,
                 srch, chunker, settings, whisper>>

\* ------------------------------------------------------ payment intent
\* StripeService.get_package, lines 178-250: a dict (or None)
PackageDict(n) == [type |-> "dict", credits |-> n]

\* Python attribute access obj.name: a dict has keys, not attributes
GetAttr(obj, name) == IF obj.type = "dict" THEN "AttributeError" ELSE obj[name]

\* POST /payments/payment-intent arrives (payments.py 129-156);
\* create_payment_intent lines 377-401: the package is looked up; found
\* tells whether Stripe knows package_id, n is its credits amount
StartPaymentIntent(r, u, found, n) ==
  /\ Free(r)
  /\ req' = IF found
            THEN [req EXCEPT ![r] = [NewReq("payment_intent", "select_user", u, "s1")
                                       EXCEPT !.package = PackageDict(n)]]
            ELSE Finish(r, "bad_request")
  /\ UNCHANGED <<credits, faults, hist, sessions, blocks, ai_jobs, pipelines, jobSeq,
                 blockSeq, otherVars>>

\* lines 403-416: the user row is read; the caller is an authenticated user
PiSelectUser(r) ==
  /\ req[r].kind = "payment_intent" /\ req[r].pc = "select_user"
  /\ req' = [req EXCEPT ![r].pc = "create_intent"]
  /\ UNCHANGED <<credits, faults, hist, sessions, blocks, ai_jobs, pipelines, jobSeq,
                 blockSeq, otherVars>>

\* lines 418-440: stripe.PaymentIntent.create answers an intent (p, an id not
\* yet in use), an intent without client_secret, or a StripeError; the last
\* two are answered with 400 (lines 438-440, 471-477, payments.py 158-163)
PiCreateIntent(r) ==
  /\ req[r].kind = "payment_intent" /\ req[r].pc = "create_intent"
  /\ \/ \E p \in PaymentIds :
          /\ payments[p].kind = "absent"
          /\ \A o \in Reqs : req[o].intent # p
          /\ req' = [req EXCEPT ![r].pc = "commit_payment", ![r].intent = p]
     \/ req' = Finish(r, "bad_request")
  /\ UNCHANGED <<credits, faults, hist, sessions, blocks, ai_jobs, pipelines, jobSeq,
                 blockSeq, otherVars>>

\* lines 442-469 with the except branch of 478-483: the pending Payment is
\* committed, then the log line reads package.credits and the dict is
\* returned; an exception after the commit is turned into a ValueError,
\* which payments.py 158-163 answers with 400
PiCommitPayment(r) ==
  /\ req[r].kind = "payment_intent" /\ req[r].pc = "commit_payment"
  /\ payments' = [payments EXCEPT ![req[r].intent] =
                    PendingPayment("intent", req[r].user, req[r].package.credits)]
  /\ req' = IF GetAttr(req[r].package, "credits") = "AttributeError"
            THEN Finish(r, "bad_request")
            ELSE Finish(r, "client_secret")
  /\ UNCHANGED <<credits, faults, hist, sessions, blocks, ai_jobs, pipelines, jobSeq,
                 blockSeq, wh, clock, mediaVars, searchVars>>

\* lines 454-459: the commit fails; rollback, ValueError, 400
PiCommitFails(r) ==
  /\ req[r].kind = "payment_intent" /\ req[r].pc = "commit_payment"
  /\ faults > 0
  /\ faults' = faults - 1
  /\ req' = Finish(r, "bad_request")
  /\ UNCHANGED <<credits, hist, sessions, blocks, ai_jobs, pipelines, jobSeq,
                 blockSeq, otherVars>>

PaymentIntentStep(r) ==
  \/ PiSelectUser(r)
  \/ PiCreateIntent(r)
  \/ PiCommitPayment(r)
  \/ PiCommitFails(r)

\* -------------------------------------------------------------- speech
\* GroqWhisperProvider.__init__ (lines 31-47) for the two API keys being set
\* or not; the other fields log the latest transcribe call: the services
\* called in order, whether each was able to answer, and the outcome
NewGroqWhisperProvider(api_key, openai_api_key) ==
  [api_key        |-> api_key,
   openai_api_key |-> openai_api_key,
   calls          |-> 0,
   audio          |-> "m1",
   language       |-> "None",
   groq_up        |-> TRUE,
   openai_up      |-> TRUE,
   log            |-> << >>,
   result         |-> "none"]

\* _transcribe_with_openai with a second attempt after a failed one
TranscribeWithOpenaiRetry(w, openai_up) ==
  IF ~w.openai_api_key THEN [log |-> << >>, result |-> "Exception"]
  ELSE IF openai_up THEN [log |-> <<"openai">>, result |-> "text"]
  ELSE [log |-> <<"openai", "openai">>, result |-> "Exception"]

\* GroqWhisperProvider._transcribe_with_openai, lines 198-243: without
\* client it raises at once; otherwise one request, whose failure is raised
TranscribeWithOpenai(w, openai_up) ==
  IF ~w.openai_api_key THEN [log |-> << >>, result |-> "Exception"]
  ELSE IF openai_up THEN [log |-> <<"openai">>, result |-> "text"]
  ELSE [log |-> <<"openai">>, result |-> "Exception"]

\* GroqWhisperProvider.transcribe, lines 53-136, for one audio file; groq_up
\* and openai_up tell whether each service is able to answer this call
Transcribe(audio, language, groq_up, openai_up) ==
  /\ whisper.calls < MaxCalls
  /\ LET w  == [whisper EXCEPT !.calls = @ + 1, !.audio = audio, !.language = language,
                               !.groq_up = groq_up, !.openai_up = openai_up]
         fb == TranscribeWithOpenai(whisper, openai_up) IN
       whisper' =
         IF ~(whisper.api_key \/ whisper.openai_api_key)
         THEN [w EXCEPT !.log = << >>, !.result = "ValueError"]
         ELSE IF ~whisper.api_key
         THEN [w EXCEPT !.log = fb.log, !.result = fb.result]
         ELSE IF groq_up
         THEN [w EXCEPT !.log = <<"groq">>, !.result = "text"]
         ELSE [w EXCEPT !.log = <<"groq">> \o fb.log, !.result = fb.result]
  /\ UNCHANGED <<credits, faults, hist, sessVars, payVars, mediaVars, embeddings,
                 srch, chunker, vision, settings>>

\* -------------------------------------------------------------- search
\* the provider's embedding, seen through the cosine distance (in tenths)
\* between the embedded query and an embedded chunk
Distance(query, text) == IF query = text THEN 0 ELSE 8

\* api/search.py lines 70-73: the ids of the sessions the reader owns
UserSessionIds(ss, u) == {sid \in DOMAIN ss : ss[sid].user_id = u}

\* the scope filter with the session clause left out
InScopeUnfiltered(session_ids, e) == e.session_id = e.session_id \/ session_ids = {}

\* EmbeddingRepository.find_similar lines 91-102: the WHERE clause; an empty
\* id list adds no condition
InScope(session_ids, e) == session_ids # {} => e.session_id \in session_ids

\* EmbeddingRepository.find_similar lines 81, 110-117: rows in scope closer
\* than 1 - threshold
Matches(embs, query, threshold, session_ids) ==
  {e \in embs : InScope(session_ids, e) /\ Distance(query, e.text) < 10 - threshold}

\* ORDER BY distance LIMIT :limit - the possible result sets
FindSimilar(embs, query, limit, threshold, session_ids) ==
  LET ms == Matches(embs, query, threshold, session_ids) IN
    {h \in SUBSET ms :
       /\ Cardinality(h) = IF Cardinality(ms) < limit THEN Cardinality(ms) ELSE limit
       /\ \A e \in h, o \in ms \ h : Distance(query, e.text) <= Distance(query, o.text)}

IdleSearch == [pc |-> "idle", user |-> "u1", query |-> "groceries", limit |-> 1,
               threshold |-> 0, session_ids |-> {}, hits |-> {},
               api_up |-> TRUE, embedded_by |-> "none", result |-> "none"]

\* stage C of the pipeline stores a chunk of a session's text
\* (EmbeddingRepository.create_embedding)
CreateEmbedding(sid, text) ==
  /\ sid \in DOMAIN sessions
  /\ Cardinality(embeddings) < MaxEmbeddings
  /\ embeddings' = embeddings \cup {[id |-> Cardinality(embeddings) + 1,
                                     session_id |-> sid, text |-> text]}
  /\ UNCHANGED <<credits, faults, hist, sessVars, payVars, mediaVars, srch, chunker, vision, settings, whisper>>

\* POST /search/semantic arrives; the query is embedded by the provider
\* get_llm_provider returns (search.py 62-67); a ValueError is answered
\* with 400, any other exception with 500 (search.py 118-127)
StartSearch(u, query, limit, threshold, api_up) ==
  /\ srch.pc \in {"idle", "done"}
  /\ LET provider == GetLlmProvider(settings)
         answer   == IF provider = "ValueError" THEN "ValueError"
                     ELSE Embed(provider, api_up)
         call     == [IdleSearch EXCEPT !.user = u, !.query = query, !.limit = limit,
                                        !.threshold = threshold, !.api_up = api_up] IN
       srch' = IF answer = "vector"
               THEN [call EXCEPT !.pc = "select_ids", !.embedded_by = provider]
               ELSE [call EXCEPT !.pc = "done",
                                 !.result = IF answer = "ValueError" THEN "bad_request"
                                            ELSE "error"]
  /\ UNCHANGED <<credits, faults, hist, sessVars, payVars, mediaVars, embeddings, chunker, vision, settings, whisper>>

\* api/search.py lines 70-80: the reader's session ids; none means no hits
SearchSelectIds ==
  /\ srch.pc = "select_ids"
  /\ LET ids == UserSessionIds(sessions, srch.user) IN
       srch' = IF ids = {} THEN [srch EXCEPT !.pc = "done", !.hits = {}, !.result = "ok"]
               ELSE [srch EXCEPT !.pc = "find", !.session_ids = ids]
  /\ UNCHANGED <<credits, faults, hist, sessVars, payVars, mediaVars, embeddings, chunker, vision, settings, whisper>>

\* api/search.py lines 84-116: find_similar scoped to those ids
SearchFind ==
  /\ srch.pc = "find"
  /\ \E h \in FindSimilar(embeddings, srch.query, srch.limit, srch.threshold,
                          srch.session_ids) :
       srch' = [srch EXCEPT !.pc = "done", !.hits = h, !.result = "ok"]
  /\ UNCHANGED <<credits, faults, hist, sessVars, payVars, mediaVars, embeddings, chunker, vision, settings, whisper>>

\* ---------------------------------------------------------- histories
Hist0(cr) ==
  [credits0   |-> cr,
   credited   |-> [u \in Users |-> 0],
   debited    |-> [u \in Users |-> 0],
   paid       |-> {},
   failed     |-> {},
   sameTarget |-> FALSE,
   grants     |-> [p \in PaymentIds |-> 0],
   deliveries |-> 0,
   dbFailed   |-> FALSE,
   recommitted |-> FALSE,
   deleted    |-> {},
   again      |-> {}]

\* a scenario session: open, owned by u
OpenSession(u) == [user_id |-> u, status |-> OPEN, finalized_at |-> FALSE,
                   processed_at |-> FALSE, ai_summary |-> "None",
                   suggested_title |-> "None"]

TextBlock(i, sid) == [id |-> i, session_id |-> sid, block_type |-> "text",
                      media_url |-> "None", late |-> FALSE, chunks |-> 1]

InitBlocks(n1, n2) ==
  {TextBlock(i, "s1") : i \in 1..n1} \cup {TextBlock(n1 + i, "s2") : i \in 1..n2}

\* ------------------------------------------- two concurrent finalizes
\* Scenario family: user u1 owns two open sessions and issues two finalize
\* requests at once, on the same session or on the two different ones.
InitFinalizePart ==
  /\ \E c \in 0..MaxInitCredits : credits = [u \in Users |-> IF u = "u1" THEN c ELSE 0]
  /\ sessions = [s \in SessionIds |-> OpenSession("u1")]
  /\ \E n1 \in 0..MaxInitBlocks, n2 \in 0..MaxInitBlocks :
       /\ blocks = InitBlocks(n1, n2)
       /\ blockSeq = n1 + n2
  /\ ai_jobs = {}
  /\ pipelines = {}
  /\ \E t \in SessionIds :
       /\ req = [r \in Reqs |-> NewReq("finalize", "has_credits", "u1",
                                       IF r = "r1" THEN "s1" ELSE t)]
       /\ hist = [Hist0(credits) EXCEPT !.sameTarget = (t = "s1")]
  /\ faults \in 0..MaxFaults
  /\ jobSeq = 0

NoMedia ==
  /\ media = << >>
  /\ objects = {}
  /\ up = [r \in Reqs |-> IdleUpload]

NoSearch ==
  /\ embeddings = {}
  /\ srch = IdleSearch
  /\ chunker = IdleChunker
  /\ vision = NewVisionProvider(TRUE, TRUE)
  /\ settings = OpenAIDeployment
  /\ whisper = NewGroqWhisperProvider(TRUE, TRUE)

NoPayments ==
  /\ payments = [p \in PaymentIds |-> AbsentPayment]
  /\ wh = [d \in Deliveries |-> IdleDelivery]
  /\ clock = 0

InitFinalize == InitFinalizePart /\ NoPayments /\ NoMedia /\ NoSearch

NextFinalize == \E r \in Reqs : FinalizeStep(r) \/ FinalizeFault(r)

SpecFinalize == InitFinalize /\ [][NextFinalize]_vars

\* ------------------------------------------------------ the session API
\* Users create sessions; u1 issues append, finalize and reprocess requests
\* on its own and on foreign sessions, at most two of them in flight at once.
\* The database is reliable here; the scenario families inject its failures.
Init ==
  /\ \E c \in 0..MaxInitCredits : credits = [u \in Users |-> IF u = "u1" THEN c ELSE 0]
  /\ hist = Hist0(credits)
  /\ faults = 0
  /\ sessions = << >>
  /\ blocks = {}
  /\ ai_jobs = {}
  /\ pipelines = {}
  /\ req = [r \in Reqs |-> IdleReq]
  /\ jobSeq = 0
  /\ blockSeq = 0
  /\ NoPayments
  /\ NoMedia
  /\ NoSearch

Next ==
  \/ \E u \in Users : CreateSession(u)
  \/ \E r \in Reqs, sid \in SessionIds : StartAppend(r, "u1", sid, "text")
  \/ \E r \in Reqs, sid \in SessionIds : StartFinalize(r, "u1", sid)
  \/ \E r \in Reqs, sid \in SessionIds, force \in BOOLEAN :
       StartReprocess(r, "u1", sid, force)
  \/ \E r \in Reqs : AppendStep(r)
  \/ \E r \in Reqs : FinalizeStep(r)
  \/ \E r \in Reqs : ReprocessStep(r)

Spec == Init /\ [][Next]_vars

\* -------------------------------------------------- webhook deliveries
\* Scenario family: u1 has one pending Payment Sheet payment (p1) and one
\* pending hosted-checkout payment (p2); Stripe delivers events for them,
\* replayed and overlapping.
InitPayPart ==
  /\ \E n1 \in 1..MaxPackageCredits, n2 \in 1..MaxPackageCredits :
       payments = [p \in PaymentIds |->
                     IF p = "p1" THEN PendingPayment("intent", "u1", n1)
                     ELSE PendingPayment("checkout", "u1", n2)]
  /\ wh = [d \in Deliveries |-> IdleDelivery]
  /\ clock = 0

NoSessions ==
  /\ sessions = << >>
  /\ blocks = {}
  /\ ai_jobs = {}
  /\ pipelines = {}
  /\ req = [r \in Reqs |-> IdleReq]
  /\ jobSeq = 0
  /\ blockSeq = 0

InitPay ==
  /\ credits = [u \in Users |-> 0]
  /\ hist = Hist0(credits)
  /\ faults \in 0..MaxFaults
  /\ NoSessions
  /\ InitPayPart
  /\ NoMedia
  /\ NoSearch

NextPay ==
  \E d \in Deliveries :
    \/ WebhookStep(d)
    \/ WhCreditCommitFails(d)
    \/ \E type \in EventTypes, p \in PaymentIds, secret \in BOOLEAN,
          signature \in Signatures : WhUnsigned(d, type, p, secret, signature)

SpecPay == InitPay /\ [][NextPay]_vars

\* Scenario family: the same payments, with Stripe delivering one event at a
\* time (each delivery is answered before the next arrives) and a reliable
\* database.
InitReplay == InitPay /\ faults = 0

NextReplay == WebhookStep("d1")

SpecReplay == InitReplay /\ [][NextReplay]_vars

\* ------------------------------------------------------- credit service
\* Scenario family: callers invoke CreditService.debit and
\* CreditService.credit directly, with any amount, for users holding any
\* small balance; the record of a call keeps its arguments and its answer.
Amounts == (0 - 1)..MaxAmount

CallDebit(r, u, amount) ==
  /\ req' = [req EXCEPT ![r] = [IdleReq EXCEPT !.kind = "debit", !.pc = "done",
                                  !.user = u, !.amount = amount,
                                  !.result = DebitAnswer(credits, u, amount)]]
  /\ credits' = DebitEffect(credits, u, amount)
  /\ UNCHANGED <<faults, hist, sessions, blocks, ai_jobs, pipelines, jobSeq,
                 blockSeq, otherVars>>

CallCredit(r, u, amount) ==
  /\ credits[u] + amount <= MaxBalance
  /\ req' = [req EXCEPT ![r] = [IdleReq EXCEPT !.kind = "credit", !.pc = "done",
                                  !.user = u, !.amount = amount,
                                  !.result = CreditAnswer(amount)]]
  /\ credits' = CreditEffect(credits, u, amount)
  /\ UNCHANGED <<faults, hist, sessions, blocks, ai_jobs, pipelines, jobSeq,
                 blockSeq, otherVars>>

InitCredit ==
  /\ credits \in [Users -> 0..MaxInitCredits]
  /\ hist = Hist0(credits)
  /\ faults = 0
  /\ NoSessions
  /\ NoPayments
  /\ NoMedia
  /\ NoSearch

NextCredit ==
  \/ \E u \in Users, amount \in Amounts : CallDebit("r1", u, amount)
  \/ \E u \in Users, amount \in Amounts : CallCredit("r1", u, amount)

SpecCredit == InitCredit /\ [][NextCredit]_vars

\* ------------------------------------------------------------ chunking
\* Scenario family: chunk_text is called with every short text over the
\* characters of Chars and every chunk_size and overlap with
\* 0 <= overlap < chunk_size.
NextChunk ==
  \/ \E text \in Texts4, chunk_size \in 1..MaxChunkSize :
       \E overlap \in 0..(chunk_size - 1) : ChunkCall(text, chunk_size, overlap)
  \/ ChunkLoop

InitChunk ==
  /\ credits = [u \in Users |-> 0]
  /\ hist = Hist0(credits)
  /\ faults = 0
  /\ NoSessions
  /\ NoPayments
  /\ NoMedia
  /\ NoSearch

SpecChunk == InitChunk /\ [][NextChunk]_vars

\* --------------------------------------------------------------- vision
\* Scenario family: one VisionProvider, built with any of the two API keys
\* set, describes images one after the other while each service is up or
\* down for each call.
InitVision ==
  /\ credits = [u \in Users |-> 0]
  /\ hist = Hist0(credits)
  /\ faults = 0
  /\ NoSessions
  /\ NoPayments
  /\ NoMedia
  /\ embeddings = {}
  /\ srch = IdleSearch
  /\ chunker = IdleChunker
  /\ \E g \in BOOLEAN, o \in BOOLEAN : vision = NewVisionProvider(g, o)
  /\ settings = OpenAIDeployment
  /\ whisper = NewGroqWhisperProvider(TRUE, TRUE)

NextVision ==
  \E image \in MediaIds, via \in {"url", "file"},
     groq_up \in BOOLEAN, openai_up \in BOOLEAN :
    DescribeImage(image, via, groq_up, openai_up)

SpecVision == InitVision /\ [][NextVision]_vars

\* ------------------------------------------------------- payment intent
\* Scenario family: no payment exists yet; the users ask for payment intents
\* for packages Stripe knows or not, at most two requests in flight at once,
\* against a database that may fail a commit.
InitIntent ==
  /\ credits = [u \in Users |-> 0]
  /\ hist = Hist0(credits)
  /\ faults \in 0..MaxFaults
  /\ NoSessions
  /\ NoPayments
  /\ NoMedia
  /\ NoSearch

NextIntent ==
  \/ \E r \in Reqs, u \in Users, found \in BOOLEAN, n \in 1..MaxPackageCredits :
       StartPaymentIntent(r, u, found, n)
  \/ \E r \in Reqs : PaymentIntentStep(r)

SpecIntent == InitIntent /\ [][NextIntent]_vars

\* --------------------------------------------------------------- speech
\* Scenario family: one GroqWhisperProvider, built with any of the two API
\* keys set, transcribes audio files one after the other while each service
\* is up or down for each call.
Languages == {"None", "pt"}

InitSpeech ==
  /\ credits = [u \in Users |-> 0]
  /\ hist = Hist0(credits)
  /\ faults = 0
  /\ NoSessions
  /\ NoPayments
  /\ NoMedia
  /\ embeddings = {}
  /\ srch = IdleSearch
  /\ chunker = IdleChunker
  /\ vision = NewVisionProvider(TRUE, TRUE)
  /\ settings = OpenAIDeployment
  /\ \E g \in BOOLEAN, o \in BOOLEAN : whisper = NewGroqWhisperProvider(g, o)

NextSpeech ==
  \E audio \in MediaIds, language \in Languages,
     groq_up \in BOOLEAN, openai_up \in BOOLEAN :
    Transcribe(audio, language, groq_up, openai_up)

SpecSpeech == InitSpeech /\ [][NextSpeech]_vars

\* ------------------------------------------------------------ uploads
\* Scenario family: u1 owns session s1 and u2 owns session s2; both users
\* presign, PUT and commit, on their own and on each other's sessions and
\* media rows.
TwoOwners ==
  /\ sessions = [s \in SessionIds |-> OpenSession(IF s = "s1" THEN "u1" ELSE "u2")]
  /\ blocks = {}
  /\ ai_jobs = {}
  /\ pipelines = {}
  /\ req = [r \in Reqs |-> IdleReq]
  /\ jobSeq = 0
  /\ blockSeq = 0

InitMedia ==
  /\ credits = [u \in Users |-> 0]
  /\ hist = Hist0(credits)
  /\ faults = 0
  /\ TwoOwners
  /\ NoPayments
  /\ NoMedia
  /\ NoSearch

NextMedia ==
  \/ \E r \in Reqs : UploadStep(r)
  \/ \E m \in MediaIds : ClientPut(m)

SpecMedia == InitMedia /\ [][NextMedia]_vars

\* Scenario family: the same two owners send presign requests only, one
\* after the other, with every kind, content type and storage state.
NextPresign ==
  \/ \E u \in Users, sid \in SessionIds, kind \in PresignKinds,
        ct \in PresignContentTypes, storage \in StorageStates :
        StartPresign("r1", u, sid, kind, ct, storage)
  \/ PresignGetSession("r1")
  \/ PresignCreate("r1")

SpecPresign == InitMedia /\ [][NextPresign]_vars

\* Scenario family: each owner may upload to the own session (presign, PUT,
\* commit) while a delete of that session is served on another connection.
NextOverlap ==
  \/ \E sid \in SessionIds :
       StartPresign("r1", IF sid = "s1" THEN "u1" ELSE "u2", sid, "audio", "audio/m4a", "ok")
  \/ PresignGetSession("r1")
  \/ PresignCreate("r1")
  \/ \E m \in MediaIds : ClientPut(m)
  \/ \E m \in MediaIds :
       StartCommit("r1", IF m \in DOMAIN media /\ media[m].session_id = "s2"
                         THEN "u2" ELSE "u1", m, "1024")
  \/ CommitGetMedia("r1")
  \/ CommitWrite("r1")
  \/ \E sid \in DOMAIN sessions : StartDelete("r1", sessions[sid].user_id, sid)
  \/ DeleteStep("r1")

SpecOverlap == InitMedia /\ [][NextOverlap]_vars

\* ----------------------------------------------------------- pipeline
\* Scenario family: u1 owns the open session s1 with one block and sends
\* finalize and reprocess requests for it while the worker runs the chains
\* they enqueue.
InitPipeline ==
  /\ \E c \in 0..SESSION_PROCESSING_COST : credits = [u \in Users |-> IF u = "u1" THEN c ELSE 0]
  /\ hist = Hist0(credits)
  /\ faults = 0
  /\ sessions = [s \in {"s1"} |-> OpenSession("u1")]
  /\ blocks = {TextBlock(1, "s1")}
  /\ blockSeq = 1
  /\ ai_jobs = {}
  /\ jobSeq = 0
  /\ pipelines = {}
  /\ req = [r \in Reqs |-> IdleReq]
  /\ NoPayments
  /\ NoMedia
  /\ NoSearch

NextPipeline ==
  \/ \E r \in Reqs : StartFinalize(r, "u1", "s1")
  \/ \E r \in Reqs, force \in BOOLEAN : StartReprocess(r, "u1", "s1", force)
  \/ \E r \in Reqs : FinalizeStep(r)
  \/ \E r \in Reqs : ReprocessStep(r)
  \/ \E p \in pipelines : WorkerStep(p)

SpecPipeline == InitPipeline /\ [][NextPipeline]_vars

\* Scenario family: u1 finalizes s1 against a database and a broker that may
\* fail a call; every request that can take a step takes it, and every
\* enqueued stage is delivered and runs to its end.
InitLive ==
  /\ \E c \in 0..MaxInitCredits : credits = [u \in Users |-> IF u = "u1" THEN c ELSE 0]
  /\ hist = Hist0(credits)
  /\ faults \in 0..MaxFaults
  /\ sessions = [s \in {"s1"} |-> OpenSession("u1")]
  /\ blocks = {TextBlock(1, "s1")}
  /\ blockSeq = 1
  /\ ai_jobs = {}
  /\ jobSeq = 0
  /\ pipelines = {}
  /\ req = [r \in Reqs |-> IdleReq]
  /\ NoPayments
  /\ NoMedia
  /\ NoSearch

NextLive ==
  \/ \E r \in Reqs : StartFinalize(r, "u1", "s1")
  \/ \E r \in Reqs : FinalizeStep(r)
  \/ \E r \in Reqs : FinalizeFault(r)
  \/ \E p \in pipelines : WorkerStep(p)

SpecLive ==
  /\ InitLive /\ [][NextLive]_vars
  /\ WF_vars(\E r \in Reqs : FinalizeStep(r))
  /\ WF_vars(\E p \in pipelines : WorkerStep(p))

\* ------------------------------------------------------------- delete
\* Scenario family: u1 owns s1 and u2 owns s2; each session has a text block,
\* an AIJob, an embedding and a media row, and one of them a voice block that
\* names media m1. Both users send delete and delete-media requests, repeated
\* and overlapping, for their own and for each other's sessions.
StoredJob(i, u, sid) == [id |-> i, user_id |-> u, session_id |-> sid,
                         job_type |-> "session_processing", credits_used |-> 1,
                         status |-> "completed"]

StoredMedia(m, sid, st) == [session_id |-> sid, type |-> "audio",
                         object_key |-> GenerateObjectKey(sid, "audio", "audio/m4a", m),
                         content_type |-> "audio/m4a", status |-> st,
                         size_bytes |-> "None",
                         stored_at_commit |-> (st = "uploaded"),
                         committed_by |-> IF st = "uploaded" THEN sessions[sid].user_id
                                          ELSE "nobody"]

InitDelete ==
  /\ credits = [u \in Users |-> 0]
  /\ hist = Hist0(credits)
  /\ faults = 0
  /\ sessions = [s \in SessionIds |->
                   [OpenSession(IF s = "s1" THEN "u1" ELSE "u2") EXCEPT
                      !.status = PROCESSED, !.finalized_at = TRUE,
                      !.processed_at = TRUE]]
  /\ \E v \in SessionIds :
       blocks = {TextBlock(1, "s1"), TextBlock(2, "s2"),
                 [TextBlock(3, v) EXCEPT !.block_type = "voice", !.media_url = "m1"]}
  /\ blockSeq = 3
  /\ ai_jobs = {StoredJob(1, "u1", "s1"), StoredJob(2, "u2", "s2")}
  /\ jobSeq = 2
  /\ pipelines = {}
  /\ req = [r \in Reqs |-> IdleReq]
  /\ NoPayments
  /\ \E st1 \in {"pending", "uploaded"}, st2 \in {"pending", "uploaded"} :
       /\ media = [m \in MediaIds |-> IF m = "m1" THEN StoredMedia(m, "s1", st1)
                                      ELSE StoredMedia(m, "s2", st2)]
       /\ objects = {m \in MediaIds : media[m].status = "uploaded"}
  /\ up = [r \in Reqs |-> IdleUpload]
  /\ embeddings = {[id |-> 1, session_id |-> "s1", text |-> "groceries"],
                   [id |-> 2, session_id |-> "s2", text |-> "groceries"]}
  /\ srch = IdleSearch
  /\ chunker = IdleChunker
  /\ vision = NewVisionProvider(TRUE, TRUE)
  /\ settings = OpenAIDeployment
  /\ whisper = NewGroqWhisperProvider(TRUE, TRUE)

NextDelete ==
  \/ \E r \in Reqs, u \in Users, sid \in SessionIds : StartDelete(r, u, sid)
  \/ \E r \in Reqs, u \in Users, sid \in SessionIds, m \in MediaIds :
       StartDeleteMedia(r, u, sid, m)
  \/ \E r \in Reqs : DeleteStep(r)
  \/ \E r \in Reqs : DeleteMediaStep(r)

SpecDelete == InitDelete /\ [][NextDelete]_vars

\* ---------------------------------------------------------- one run
\* Scenario family: u1 owns the open session s1 with a text block, an
\* uploaded audio file (m1) and an uploaded image (m2), holds a credit and
\* finalizes s1; the worker runs the chain against a database that may fail
\* a commit.
StoredImage(m, sid) ==
  [StoredMedia(m, sid, "uploaded") EXCEPT
     !.type = "image", !.content_type = "image/png",
     !.object_key = GenerateObjectKey(sid, "image", "image/png", m)]

InitRun ==
  /\ \E c \in 1..MaxInitCredits : credits = [u \in Users |-> IF u = "u1" THEN c ELSE 0]
  /\ hist = Hist0(credits)
  /\ faults \in 0..MaxFaults
  /\ sessions = [s \in {"s1"} |-> OpenSession("u1")]
  /\ blocks = {TextBlock(1, "s1")}
  /\ blockSeq = 1
  /\ ai_jobs = {}
  /\ jobSeq = 0
  /\ pipelines = {}
  /\ req = [r \in Reqs |-> IdleReq]
  /\ NoPayments
  /\ media = [m \in MediaIds |-> IF m = "m1" THEN StoredMedia(m, "s1", "uploaded")
                                 ELSE StoredImage(m, "s1")]
  /\ objects = MediaIds
  /\ up = [r \in Reqs |-> IdleUpload]
  /\ NoSearch

NextRun ==
  \/ StartFinalize("r1", "u1", "s1")
  \/ FinalizeStep("r1")
  \/ \E p \in pipelines : WorkerStep(p)
  \/ \E p \in pipelines : WorkerFault(p)
  \/ \E p \in pipelines : Kill(p)

SpecRun == InitRun /\ [][NextRun]_vars

\* Scenario family: the same session and finalize request, a reliable
\* database, and a broker that may deliver a stage task a second time.
InitAgain == InitRun /\ faults = 0

NextAgain ==
  \/ StartFinalize("r1", "u1", "s1")
  \/ FinalizeStep("r1")
  \/ \E p \in pipelines : WorkerStep(p)
  \/ \E p \in pipelines, st \in {"A", "B", "C"} : Redeliver(p, st)

SpecAgain == InitAgain /\ [][NextAgain]_vars

\* Scenario family: u1 holds a credit and owns the open session s1 whose
\* one text block is of any length up to MaxTextChunks chunks, with no media;
\* chat runs on DeepSeek, the embedding flag and the OpenAI key are set or
\* not; u1 finalizes s1 and the worker runs the chain against a database
\* that may fail a commit.
InitEmbed ==
  /\ credits = [u \in Users |-> IF u = "u1" THEN SESSION_PROCESSING_COST ELSE 0]
  /\ hist = Hist0(credits)
  /\ faults \in 0..MaxFaults
  /\ sessions = [s \in {"s1"} |-> OpenSession("u1")]
  /\ \E n \in 0..MaxTextChunks : blocks = {[TextBlock(1, "s1") EXCEPT !.chunks = n]}
  /\ blockSeq = 1
  /\ ai_jobs = {}
  /\ jobSeq = 0
  /\ pipelines = {}
  /\ req = [r \in Reqs |-> IdleReq]
  /\ NoPayments
  /\ NoMedia
  /\ embeddings = {}
  /\ srch = IdleSearch
  /\ chunker = IdleChunker
  /\ vision = NewVisionProvider(TRUE, TRUE)
  /\ \E flag \in BOOLEAN, key \in BOOLEAN :
       settings = [OpenAIDeployment EXCEPT !.enable_embeddings = flag,
                                           !.openai_api_key = key,
                                           !.ai_provider = "deepseek",
                                           !.deepseek_api_key = TRUE]
  /\ whisper = NewGroqWhisperProvider(TRUE, TRUE)

NextEmbed ==
  \/ StartFinalize("r1", "u1", "s1")
  \/ FinalizeStep("r1")
  \/ \E p \in pipelines : WorkerStep(p)
  \/ \E p \in pipelines : WorkerFault(p)

SpecEmbed == InitEmbed /\ [][NextEmbed]_vars

\* Scenario family: the same session; u1 posts blocks of any type, also one
\* that is no BlockType, before finalizing, and the worker runs the chain.
BlockTypeInputs == BlockType \cup {"summary"}

NextAppend ==
  \/ \E block_type \in BlockTypeInputs : StartAppend("r1", "u1", "s1", block_type)
  \/ AppendStep("r1")
  \/ StartFinalize("r1", "u1", "s1")
  \/ FinalizeStep("r1")
  \/ \E p \in pipelines : WorkerStep(p)

SpecAppend == InitAgain /\ [][NextAppend]_vars

\* ------------------------------------------------------------- search
\* Scenario family: the two sessions belong to any users (so a user may own
\* none); the pipeline indexes chunks of both sessions while users search.
InitSearch ==
  /\ credits = [u \in Users |-> 0]
  /\ hist = Hist0(credits)
  /\ faults = 0
  /\ \E o1 \in Users, o2 \in Users :
       sessions = [s \in SessionIds |-> OpenSession(IF s = "s1" THEN o1 ELSE o2)]
  /\ blocks = {}
  /\ ai_jobs = {}
  /\ pipelines = {}
  /\ req = [r \in Reqs |-> IdleReq]
  /\ jobSeq = 0
  /\ blockSeq = 0
  /\ NoPayments
  /\ NoMedia
  /\ NoSearch

NextSearch ==
  \/ \E sid \in SessionIds, text \in Texts : CreateEmbedding(sid, text)
  \/ \E u \in Users, query \in Texts, limit \in 1..2, threshold \in {0, 7} :
       StartSearch(u, query, limit, threshold, TRUE)
  \/ SearchSelectIds
  \/ SearchFind

SpecSearch == InitSearch /\ [][NextSearch]_vars

\* Scenario family: u1 owns s1 and u2 owns s2, each session with an
\* embedding; the deployment selects any chat and embedding provider with
\* any of the two keys set; the users search while the embedding API is up
\* or down.
ProviderNames == {"None", "openai", "deepseek"}

InitQuery ==
  /\ credits = [u \in Users |-> 0]
  /\ hist = Hist0(credits)
  /\ faults = 0
  /\ TwoOwners
  /\ NoPayments
  /\ NoMedia
  /\ embeddings = {[id |-> 1, session_id |-> "s1", text |-> "groceries"],
                   [id |-> 2, session_id |-> "s2", text |-> "groceries"]}
  /\ srch = IdleSearch
  /\ chunker = IdleChunker
  /\ vision = NewVisionProvider(TRUE, TRUE)
  /\ \E ai \in ProviderNames, emb \in ProviderNames, ok \in BOOLEAN, dk \in BOOLEAN :
       settings = [ai_provider |-> ai, embedding_provider |-> emb,
                   openai_api_key |-> ok, deepseek_api_key |-> dk,
                   enable_embeddings |-> TRUE]
  /\ whisper = NewGroqWhisperProvider(TRUE, TRUE)

NextQuery ==
  \/ \E u \in Users, query \in Texts, api_up \in BOOLEAN :
       StartSearch(u, query, 1, 0, api_up)
  \/ SearchSelectIds
  \/ SearchFind

SpecQuery == InitQuery /\ [][NextQuery]_vars

\* ------------------------------------- finalizes racing with webhooks
\* Scenario family: the two finalize requests of u1 (on different sessions)
\* run while Stripe delivers events for u1's payments one after the other.
InitLedger ==
  /\ InitFinalizePart
  /\ ~hist.sameTarget
  /\ \A sid \in SessionIds : SessionBlocks(blocks, sid) # {}
  /\ InitPayPart
  /\ NoMedia
  /\ NoSearch

NextLedger == NextFinalize \/ WebhookStep("d1") \/ WhCreditCommitFails("d1")

SpecLedger == InitLedger /\ [][NextLedger]_vars

\* ================================================================ claims
DoneReqs     == {r \in Reqs : req[r].pc = "done"}
SessionJobs(sid) == {j \in ai_jobs : j.session_id = sid}
SessionPipelines(sid) == {q \in pipelines : q.session_id = sid}

\* C1: under every interleaving of debit(owner, 1) calls (finalize requests)
\* and credit(owner, n) calls (payment webhooks) the stored balance is never
\* negative and equals initial + credited - number of successful debits.
C1_LedgerBalance ==
  \A u \in Users :
    /\ credits[u] >= 0
    /\ credits[u] = hist.credits0[u] + hist.credited[u] - hist.debited[u]

\* a debit was refused and a credit was granted in the same behaviour
C1_Witness ==
  /\ hist.credited["u1"] > 0
  /\ hist.debited["u1"] > 0
  /\ \E r \in Reqs : req[r].result = "finalized_insufficient_credits"

\* C2: a finalize request that found credits available and ended in an error
\* has left no debit, no AIJob and no status write behind.
C2_AllOrNothing ==
  \A o \in hist.failed : ~o.debited /\ ~o.job_inserted /\ ~o.status_written

FinalizeAnswers == {"finalized_ai", "finalized_insufficient_credits",
                    "finalized_no_credits"}

SameSession == hist.sameTarget

\* C3: of two concurrent finalize requests on the same open session at most
\* one succeeds and the other fails with a state conflict, so the session has
\* at most one AIJob, one enqueued pipeline and one credit debited.
C3_SingleFinalize ==
  (SameSession /\ ~hist.dbFailed) =>
    /\ Cardinality({r \in DoneReqs : req[r].result \in FinalizeAnswers}) <= 1
    /\ (DoneReqs = Reqs => \E r \in Reqs : req[r].result = "state_conflict")
    /\ Cardinality(SessionJobs("s1")) <= 1
    /\ Cardinality(SessionPipelines("s1")) <= 1
    /\ hist.debited["u1"] <= 1

\* the race on the last credit: balance 1, two different open sessions that
\* both have a block, no database failure
LastCreditRace ==
  /\ hist.credits0["u1"] = 1
  /\ ~SameSession
  /\ \A sid \in SessionIds : SessionBlocks(blocks, sid) # {}
  /\ ~hist.dbFailed

WithAI(sid) ==
  /\ sessions[sid].status = PENDING_PROCESSING
  /\ Cardinality(SessionJobs(sid)) = 1

WithoutAI(sid) ==
  /\ sessions[sid].status = NO_CREDITS
  /\ SessionJobs(sid) = {}

\* C4: with balance 1 and two concurrent finalize requests on two different
\* open sessions with blocks, exactly one session ends pending_processing with
\* one AIJob, the other no_credits with none, the balance ends at 0 and is
\* never negative.
C4_LastCreditRace ==
  LastCreditRace =>
    /\ credits["u1"] >= 0
    /\ DoneReqs = Reqs =>
         /\ \/ WithAI("s1") /\ WithoutAI("s2")
            \/ WithAI("s2") /\ WithoutAI("s1")
         /\ credits["u1"] = 0

\* both requests saw the credit, one lost the debit, both have answered
C4_Witness ==
  /\ LastCreditRace
  /\ DoneReqs = Reqs
  /\ \E r \in Reqs : req[r].result = "finalized_insufficient_credits"

\* C5: a block stored by append_block is stored while its session is open;
\* no append commits a block after the finalize of its session has committed.
C5_AppendOnlyWhileOpen == \A b \in blocks : ~b.late

\* C7: a session gets a pipeline run, or reaches processing or processed,
\* only if a finalize of that session debited a credit.
C7_DebitGatesAI ==
  \A sid \in DOMAIN sessions :
    (SessionPipelines(sid) # {} \/ sessions[sid].status \in {PROCESSING, PROCESSED})
      => sid \in hist.paid

\* C8: every hit of a semantic search belongs to a session the searching
\* principal owns, and a principal who owns no session gets no hits.
C8_SearchScope ==
  srch.pc = "done" =>
    /\ \A h \in srch.hits : sessions[h.session_id].user_id = srch.user
    /\ UserSessionIds(sessions, srch.user) = {} => srch.hits = {}

\* the reader got a hit while another principal holds the same text
C8_Witness ==
  /\ srch.pc = "done"
  /\ srch.hits # {}
  /\ \E e \in embeddings :
       /\ sessions[e.session_id].user_id # srch.user
       /\ \E h \in srch.hits : h.text = e.text

\* C9: a media row in status uploaded refers to an object that was in the
\* bucket when its commit was accepted.
C9_UploadedExists ==
  \A m \in DOMAIN media : media[m].status = "uploaded" => media[m].stored_at_commit

\* C10: a commit by a principal who does not own the media row's session is
\* rejected and leaves the row as it was.
C10_CommitOwnerOnly ==
  \A m \in DOMAIN media :
    media[m].status = "uploaded"
      => media[m].committed_by = sessions[media[m].session_id].user_id

\* C11: a media row that is uploaded stays uploaded, and a commit request that
\* finds the row uploaded answers success in that step and leaves every media
\* row (status and size_bytes) as it was, whatever size it carries.
C11_CommitIdempotent ==
  [][/\ \A m \in DOMAIN media \cap DOMAIN media' :
          media[m].status = "uploaded" => media'[m].status = "uploaded"
     /\ \A r \in Reqs :
          (/\ up[r].kind = "commit" /\ up[r].pc = "get_media"
           /\ up[r].mid \in DOMAIN media
           /\ media[up[r].mid].status = "uploaded"
           /\ up'[r] # up[r])
            => /\ up'[r].pc = "done" /\ up'[r].result = "committed"
               /\ media' = media]_vars

\* a commit was repeated on a row whose first commit recorded a size
C11_Witness ==
  /\ hist.recommitted
  /\ \E m \in DOMAIN media : media[m].status = "uploaded" /\ media[m].size_bytes # "None"

\* C12: once a delete of a session has succeeded no session, block, AIJob,
\* embedding or media row with that session id is left, and a delete request
\* that comes after it is answered not found and changes no row.
C12_DeleteCascade ==
  /\ [](\A sid \in hist.deleted :
          /\ sid \notin DOMAIN sessions
          /\ \A b \in blocks : b.session_id # sid
          /\ \A j \in ai_jobs : j.session_id # sid
          /\ \A e \in embeddings : e.session_id # sid
          /\ \A m \in DOMAIN media : media[m].session_id # sid)
  /\ [][\A r \in Reqs :
          (/\ req[r].kind = "delete" /\ req[r].pc = "get_session"
           /\ req[r].sid \in hist.deleted
           /\ req'[r] # req[r])
            => /\ req'[r].pc = "done" /\ req'[r].result = "not_found"
               /\ UNCHANGED <<credits, sessions, blocks, ai_jobs, embeddings,
                              media, objects>>]_vars

\* a session was deleted and a later delete of it came back not found
C12_Witness == \E sid \in hist.deleted : sid \in hist.again

\* C13: a successful finalize of an open session with blocks has one of two
\* outcomes. If it debited a credit: the balance is 1 lower, the session is
\* pending_processing with exactly one AIJob (credits_used 1, pending) and,
\* once the request has answered, exactly one pipeline. If it did not: the
\* balance is unchanged, the session is no_credits with no AIJob and no
\* pipeline. finalized_at is set in both.
C13_FinalizeOutcomes ==
  (~SameSession /\ ~hist.dbFailed) =>
    /\ credits["u1"] = hist.credits0["u1"] - Cardinality(hist.paid)
    /\ \A sid \in SessionIds :
         sessions[sid].status # OPEN =>
           /\ sessions[sid].finalized_at
           /\ IF sid \in hist.paid
              THEN /\ sessions[sid].status = PENDING_PROCESSING
                   /\ Cardinality(SessionJobs(sid)) = 1
                   /\ \A j \in SessionJobs(sid) :
                        j.credits_used = 1 /\ j.status = "pending"
                   /\ Cardinality(SessionPipelines(sid)) <= 1
                   /\ (\A r \in Reqs : req[r].pc = "done")
                        => Cardinality(SessionPipelines(sid)) = 1
              ELSE /\ sessions[sid].status = NO_CREDITS
                   /\ SessionJobs(sid) = {}
                   /\ SessionPipelines(sid) = {}

\* one finalize took the last credit and answered, the next found none
C13_Witness ==
  /\ ~SameSession /\ ~hist.dbFailed
  /\ \E r \in Reqs : req[r].result = "finalized_ai"
  /\ \E r \in Reqs : req[r].result = "finalized_no_credits"

\* C14: a finalize request that finds its session not open, or finds it with
\* no blocks, is answered with a state conflict and leaves every session row
\* (status and finalized_at) as it was; the session without blocks is open.
C14_FinalizeRejected ==
  [][\A r \in Reqs :
       (req[r].kind = "finalize" /\ req'[r] # req[r]) =>
         /\ (/\ req[r].pc = "get_session"
             /\ GetSession(sessions, req[r].sid, req[r].user) # "None"
             /\ sessions[req[r].sid].status # OPEN)
              => /\ req'[r].pc = "done" /\ req'[r].result = "state_conflict"
                 /\ sessions' = sessions
         /\ (/\ req[r].pc = "select_blocks"
             /\ \A b \in blocks : b.session_id # req[r].sid)
              => /\ req'[r].pc = "done" /\ req'[r].result = "state_conflict"
                 /\ sessions' = sessions
                 /\ sessions'[req[r].sid].status = OPEN]_vars

\* the second finalize of a session with blocks was refused
C14_Witness ==
  /\ SameSession
  /\ SessionBlocks(blocks, "s1") # {}
  /\ sessions["s1"].status # OPEN
  /\ \E r \in Reqs : req[r].result = "state_conflict"

\* C15: every session has at most one AIJob in status pending.
C15_OnePendingJob ==
  \A sid \in DOMAIN sessions :
    Cardinality({j \in SessionJobs(sid) : j.status = "pending"}) <= 1

\* C16: whenever an AIJob becomes completed, the same step leaves its session
\* processed with processed_at stamped.
C16_CompletedWithProcessed ==
  [][\A j \in ai_jobs' :
       (j.status = "completed" /\ \A o \in ai_jobs : o.id = j.id => o.status # "completed")
         => /\ j.session_id \in DOMAIN sessions'
            /\ sessions'[j.session_id].status = PROCESSED
            /\ sessions'[j.session_id].processed_at]_vars

\* a job is completed and its session carries the processed stamp
C16_Witness ==
  \E j \in ai_jobs :
    /\ j.status = "completed"
    /\ j.session_id \in DOMAIN sessions
    /\ sessions[j.session_id].processed_at

\* C17: a Payment row that is completed keeps its status and its
\* completed_at in every later step.
C17_CompletedTerminal ==
  [][\A p \in PaymentIds :
       payments[p].status = "completed"
         => /\ payments'[p].status = "completed"
            /\ payments'[p].completed_at = payments[p].completed_at]_vars

\* C18: of payment_intent.succeeded deliveries for a Payment Sheet payment
\* that arrive one after the other, the first that finds no grant yet answers
\* success and grants the credits, every later one answers
\* already_processed and changes neither the row (completed_at included) nor
\* the balance.
C18_ReplayAnswers ==
  [][\A p \in PaymentIds :
       (/\ payments[p].kind = "intent"
        /\ wh["d1"].type = "payment_intent.succeeded" /\ wh["d1"].pid = p
        /\ wh["d1"].pc \notin {"idle", "done"} /\ wh'["d1"].pc = "done")
         => IF hist.grants[p] = 0
            THEN /\ wh'["d1"].result = "success"
                 /\ hist'.grants[p] = 1
                 /\ credits'[payments[p].user_id]
                      = credits[payments[p].user_id] + payments[p].credits_amount
                 /\ payments'[p].status = "completed"
            ELSE /\ wh'["d1"].result = "already_processed"
                 /\ payments' = payments
                 /\ credits' = credits]_vars

\* the third delivery for the granted payment p1 was answered already_processed
C18_Witness ==
  /\ hist.grants["p1"] = 1
  /\ hist.deliveries >= 3
  /\ payments["p1"].status = "completed"
  /\ wh["d1"].pc = "done" /\ wh["d1"].pid = "p1"
  /\ wh["d1"].type = "payment_intent.succeeded"
  /\ wh["d1"].result = "already_processed"

\* C19: only a request whose signature validates against a configured secret
\* reaches the event handling; any other request is answered with an error
\* in the step it arrives and changes no Payment row and no balance.
C19_SignatureGate ==
  /\ [](\A d \in Deliveries :
          wh[d].pc \notin {"idle", "done"} => wh[d].secret /\ wh[d].signature = "valid")
  /\ [][\A d \in Deliveries :
          (wh'[d] # wh[d] /\ wh'[d].result \in {"error_400", "error_500"})
            => /\ wh[d].pc \in {"idle", "done"}
               /\ payments' = payments /\ credits' = credits]_vars

\* a request was turned away while a pending payment waits for its event
C19_Witness ==
  /\ \E d \in Deliveries : wh[d].pc = "done" /\ wh[d].result = "error_400"
  /\ \E d \in Deliveries : wh[d].pc = "done" /\ wh[d].result = "error_500"
  /\ \A p \in PaymentIds : payments[p].status = "pending"

\* C20: a request (append, finalize, delete, delete-media) naming a session
\* that belongs to another user ends as for a missing session, not found,
\* and neither it nor its last step has changed a row or a balance.
C20_ForeignSessionNoEffect ==
  [][\A r \in Reqs :
       (/\ req[r].kind \in {"append", "finalize", "delete", "delete_media"}
        /\ req[r].pc \notin {"idle", "done"} /\ req'[r].pc = "done"
        /\ req[r].sid \in DOMAIN sessions
        /\ sessions[req[r].sid].user_id # req[r].user)
         => /\ req'[r].result = "not_found"
            /\ ~req[r].debited /\ ~req[r].job_inserted /\ ~req[r].status_written
            /\ credits' = credits /\ sessions' = sessions
            /\ blocks' = blocks /\ ai_jobs' = ai_jobs]_vars

\* C21: a debit with a negative amount and a credit with a zero or negative
\* amount raise the validation error, a debit of more than the balance
\* answers false, a debit of 0 answers true; none of the four changes a
\* balance.
C21_RejectedAmounts ==
  [][\A r \in Reqs :
       req'[r] # req[r]
         => LET c == req'[r] IN
            /\ (c.kind = "debit" /\ c.amount < 0)
                  => c.result = "ValueError" /\ credits' = credits
            /\ (c.kind = "credit" /\ c.amount <= 0)
                  => c.result = "ValueError" /\ credits' = credits
            /\ (c.kind = "debit" /\ c.amount > credits[c.user])
                  => c.result = "False" /\ credits' = credits
            /\ (c.kind = "debit" /\ c.amount = 0)
                  => c.result = "True" /\ credits' = credits]_vars

\* a user holding credits was just refused a negative debit
C21_Witness ==
  /\ req["r1"].kind = "debit" /\ req["r1"].amount < 0
  /\ req["r1"].result = "ValueError"
  /\ credits[req["r1"].user] > 0

\* C22: a presign request for an owned session, with working storage,
\* inserts exactly one media row, pending and with a fresh object key
\* sessions/{session_id}/{kind}/{uuid}.{ext} that no other row has, when the
\* content type is in the list of the requested kind; when the kind is
\* neither audio nor image, or the content type is not in the kind's list,
\* it inserts no row and answers with the validation error.
C22_PresignValidation ==
  [][\A r \in Reqs :
       (up[r].kind = "presign" /\ up[r].pc \notin {"idle", "done"} /\ up'[r].pc = "done")
         => LET kind  == Lower(up[r].media_type)
                ct    == Lower(up[r].content_type)
                owned == /\ up[r].sid \in DOMAIN sessions
                         /\ sessions[up[r].sid].user_id = up[r].user
                new   == DOMAIN media' \ DOMAIN media
            IN  IF kind \notin {"audio", "image"}
                THEN up'[r].result = "invalid_media_type" /\ media' = media
                ELSE IF ct \notin AllowedContentTypes(kind)
                THEN /\ media' = media
                     /\ owned => up'[r].result = "invalid_content_type"
                ELSE (owned /\ up[r].storage = "ok")
                       => /\ up'[r].result = "presigned"
                          /\ Cardinality(new) = 1
                          /\ \A o \in DOMAIN media :
                               o \in DOMAIN media' /\ media'[o] = media[o]
                          /\ \A m \in new :
                               /\ media'[m].status = "pending"
                               /\ media'[m].session_id = up[r].sid
                               /\ media'[m].object_key.session_id = up[r].sid
                               /\ media'[m].object_key.folder = kind
                               /\ media'[m].object_key.ext = GetExtension(ct)
                               /\ \A o \in DOMAIN media :
                                    media[o].object_key # media'[m].object_key]_vars

\* two rows were inserted, the second for a content type sent in capitals
C22_Witness ==
  /\ DOMAIN media = MediaIds
  /\ media["m1"].object_key # media["m2"].object_key
  /\ media["m2"].content_type = "AUDIO/M4A"
  /\ media["m2"].status = "pending"
  /\ up["r1"].pc = "done" /\ up["r1"].result = "presigned"

\* C23: a session that is pending_processing eventually is processed or
\* failed, and a pending AIJob eventually is completed or failed, when
\* every enqueued stage is delivered and every call returns or fails.
C23_EventuallySettled ==
  /\ \A sid \in SessionIds :
       (sid \in DOMAIN sessions /\ sessions[sid].status = PENDING_PROCESSING)
         ~> (sid \in DOMAIN sessions /\ sessions[sid].status \in {PROCESSED, FAILED})
  /\ \A i \in 1..MaxJobs :
       (\E j \in ai_jobs : j.id = i /\ j.status = "pending")
         ~> (\E j \in ai_jobs : j.id = i /\ j.status \in {"completed", "failed"})

\* C24: with 0 <= overlap < chunk_size every iteration of the loop of
\* chunk_text that does not end the call moves start strictly forward, and
\* the number of chunks never exceeds the length of the text.
C24_ChunkerAdvances ==
  /\ [](chunker.chunks <= Len(chunker.text))
  /\ [][(chunker.pc = "loop" /\ chunker'.pc = "loop")
          => chunker'.start > chunker.start]_vars

\* C25: a run that met a database commit failure in one of its stages, or
\* a misconfigured chat provider when stage C began, has ended with its
\* AIJob failed and its session failed (so not processed).
C25_FaultFailsRun ==
  \A p \in pipelines :
    (p.stage = "done" /\ p.fault # "none")
      => /\ \A j \in JobRow(p.ai_job_id) : j.status = "failed"
         /\ p.session_id \in DOMAIN sessions
              => sessions[p.session_id].status = FAILED

\* C26: a run whose task was terminated at the hard time limit has its
\* AIJob failed and its session failed; neither is left pending,
\* pending_processing or processing.
C26_TimeLimitFailsRun ==
  \A p \in pipelines :
    p.stage = "killed"
      => /\ \A j \in JobRow(p.ai_job_id) : j.status = "failed"
         /\ p.session_id \in DOMAIN sessions
              => sessions[p.session_id].status = FAILED

\* C27: outside the reprocess operation no step moves a session backwards
\* in open < pending_processing < processing < {processed, failed}, and
\* none changes the status of a processed, failed or no_credits session -
\* stage tasks delivered twice or late included.
StatusRank(st) ==
  CASE st = OPEN               -> 0
    [] st = PENDING_PROCESSING -> 1
    [] st = PROCESSING         -> 2
    [] OTHER                   -> 3

C27_StatusForward ==
  [][(\A r \in Reqs : req[r].kind = "reprocess" => req'[r] = req[r])
       => \A sid \in DOMAIN sessions :
            sid \in DOMAIN sessions'
              => /\ StatusRank(sessions'[sid].status) >= StatusRank(sessions[sid].status)
                 /\ sessions[sid].status \in {PROCESSED, FAILED, NO_CREDITS}
                      => sessions'[sid].status = sessions[sid].status]_vars

\* C28: a run goes through its stages in the order A, B, C, one at a time
\* and none skipped (it stops only when its task is killed), and every stage
\* works on the session id and job id the chain was built with, whether or
\* not an earlier stage met an error.
C28_StageOrder ==
  /\ [](\A p \in pipelines :
          p.stage # "killed"
            => /\ p.session_id = p.chain_args.session_id
               /\ p.ai_job_id = p.chain_args.ai_job_id)
  /\ [][/\ (\A p \in pipelines :
              \/ p \in pipelines'
              \/ \E q \in pipelines' \ pipelines :
                   /\ q.chain_args = p.chain_args /\ q.copy = p.copy
                   /\ \/ q.stage = "killed"
                      \/ StageRank(q.stage) \in {StageRank(p.stage), StageRank(p.stage) + 1})
          /\ (\A n \in pipelines' \ pipelines :
              \/ n.stage = "A"
              \/ \E o \in pipelines : o.chain_args = n.chain_args)]_vars

\* stage A lost its commit, and stage C still completed the job of the run
C28_Witness ==
  \E p \in pipelines :
    /\ p.stage = "done" /\ p.fault = "A"
    /\ \E j \in JobRow(p.chain_args.ai_job_id) : j.status = "completed"

\* C29: a stage task delivered a second time leaves the block rows and the
\* embedding rows as its first delivery left them: no step of a repeated
\* task adds or removes a block or an embedding.
C29_RedeliveryIdempotent ==
  [][\A q \in pipelines :
       (q.copy > 1 /\ q \notin pipelines')
         => blocks' = blocks /\ embeddings' = embeddings]_vars

\* C30: every describe-image call on a provider that has the primary
\* client goes to the primary first, with the primary's own model, and is
\* served by the secondary only when that primary call failed - also after
\* an earlier call has fallen back.
C30_FallbackPerCall ==
  [][(vision'.calls = vision.calls + 1 /\ vision.groq_client)
       => /\ vision'.primary_model = GROQ_VISION_MODEL
          /\ vision'.primary_result # "not_called"
          /\ vision'.served_by = "openai" => vision'.primary_result = "failed"
          /\ vision'.primary_result = "ok" => vision'.served_by = "groq"]_vars

\* C31: a block of type transcription_backend or image_description is
\* stored only by a step of pipeline stage A or B, never by the step that
\* serves a client's append request.
C31_PipelineOnlyTypes ==
  [][\A b \in blocks' \ blocks :
       b.block_type \in {"transcription_backend", "image_description"}
         => /\ \E p \in pipelines : p.stage \in {"A", "B"} /\ p \notin pipelines'
            /\ \A r \in Reqs : req[r].kind = "append" => req'[r] = req[r]]_vars

\* C32: every media-file row refers to a session that exists, also when a
\* presign or a commit for the session overlaps with the delete of it.
C32_NoOrphanMedia ==
  \A m \in DOMAIN media : media[m].session_id \in DOMAIN sessions

\* C33: a Payment row in status failed or refunded keeps that status and
\* causes no credit grant, whatever event is handled afterwards.
C33_FailedStaysFailed ==
  [][\A p \in PaymentIds :
       payments[p].status \in {"failed", "refunded"}
         => /\ payments'[p].status = payments[p].status
            /\ hist'.grants[p] = hist.grants[p]]_vars

\* C34: in every reachable state a session that is not open has
\* finalized_at set and holds at least one block.
C34_LeftOpenByFinalize ==
  \A sid \in DOMAIN sessions :
    sessions[sid].status # OPEN
      => /\ sessions[sid].finalized_at
         /\ SessionBlocks(blocks, sid) # {}

\* C35: a run that met no failure other than provider failures on single
\* items (audio files, images, chunks, the summary, the title) ends with
\* the AIJob completed and the session processed; the summary stored is the
\* provider's or the failure marker, the title the provider's or the
\* fallback.
C35_ItemFailuresTolerated ==
  \A p \in pipelines :
    (p.stage = "done" /\ p.fault = "none")
      => /\ JobRow(p.ai_job_id) # {}
         /\ \A j \in JobRow(p.ai_job_id) : j.status = "completed"
         /\ p.session_id \in DOMAIN sessions
         /\ sessions[p.session_id].status = PROCESSED
         /\ sessions[p.session_id].ai_summary \in {"summary", "failure_marker"}
         /\ sessions[p.session_id].suggested_title \in {"title", "fallback"}

\* a finished run whose audio file got no transcription and whose summary
\* and title calls both failed
C35_Witness ==
  \E p \in pipelines :
    /\ p.stage = "done" /\ p.fault = "none"
    /\ sessions[p.session_id].ai_summary = "failure_marker"
    /\ sessions[p.session_id].suggested_title = "fallback"
    /\ UploadedMedia(p.session_id, "audio") # {}
    /\ ~\E b \in blocks : b.block_type = "transcription_backend"
    /\ \A j \in JobRow(p.ai_job_id) : j.status = "completed"

C39_SearchUsesEmbeddingProvider ==
  (/\ srch.pc = "done" /\ srch.api_up
   /\ GetLlmProvider(settings) # "ValueError"
   /\ GetEmbeddingProvider(settings) # "ValueError")
    => /\ srch.result = "ok"
       /\ srch.embedded_by = GetEmbeddingProvider(settings)

\* C37 as stated: every transcribe call that reaches a service calls the
\* primary one (Groq) first; the secondary (OpenAI) is called only after a
\* failed primary call, and then exactly once.
C37_PrimaryAlwaysFirst ==
  (whisper.calls > 0 /\ whisper.log # << >>)
    => /\ whisper.log[1] = "groq"
       /\ (\E i \in DOMAIN whisper.log : whisper.log[i] = "openai")
            => (~whisper.groq_up /\ whisper.log = <<"groq", "openai">>)

\* C37 amended: a provider holding a Groq key calls Groq first; when that
\* call succeeds OpenAI is not called; when it fails OpenAI is called
\* exactly once if its key is set and not at all otherwise, and a failure of
\* that call fails transcribe with no further attempt. A provider holding
\* only the OpenAI key calls OpenAI once, with no call to Groq.
C37_SingleHopFallback ==
  whisper.calls > 0
    => /\ (whisper.api_key /\ whisper.groq_up)
            => (whisper.log = <<"groq">> /\ whisper.result = "text")
       /\ (whisper.api_key /\ ~whisper.groq_up /\ whisper.openai_api_key)
            => /\ whisper.log = <<"groq", "openai">>
               /\ whisper.result = IF whisper.openai_up THEN "text" ELSE "Exception"
       /\ (whisper.api_key /\ ~whisper.groq_up /\ ~whisper.openai_api_key)
            => (whisper.log = <<"groq">> /\ whisper.result = "Exception")
       /\ (~whisper.api_key /\ whisper.openai_api_key)
            => /\ whisper.log = <<"openai">>
               /\ whisper.result = IF whisper.openai_up THEN "text" ELSE "Exception"
       /\ (~whisper.api_key /\ ~whisper.openai_api_key)
            => (whisper.log = << >> /\ whisper.result = "ValueError")

\* both services failed in one call: Groq once, then OpenAI once
C37_Witness ==
  /\ whisper.calls > 0 /\ whisper.api_key /\ whisper.openai_api_key
  /\ ~whisper.groq_up /\ ~whisper.openai_up
  /\ whisper.log = <<"groq", "openai">> /\ whisper.result = "Exception"

\* C38: a reprocess request that is accepted has inserted exactly one AIJob,
\* with credits_used = 0, leaves the session in pending_processing when it
\* commits the status, enqueues exactly one chain, for that job, and none of
\* its steps changes a balance; a request that is rejected has changed
\* nothing.
C38_ReprocessEffect ==
  [][\A r \in Reqs :
       (req[r].kind = "reprocess" /\ req'[r] # req[r])
         => /\ credits' = credits
            /\ (req[r].pc = "commit_status" /\ req'[r].pc = "enqueue")
                 => sessions'[req[r].sid].status = PENDING_PROCESSING
            /\ (req'[r].pc = "done" /\ req'[r].result = "reprocessing")
                 => /\ Cardinality({j \in ai_jobs' : j.id = req[r].job}) = 1
                    /\ \A j \in ai_jobs' : j.id = req[r].job
                         => (j.credits_used = 0 /\ j.session_id = req[r].sid)
                    /\ pipelines' \ pipelines = {Chain(req[r].sid, req[r].job)}
            /\ (req'[r].pc = "done" /\ req'[r].result # "reprocessing")
                 => (~req[r].job_inserted /\ ~req[r].status_written
                     /\ UNCHANGED <<sessions, blocks, ai_jobs, pipelines>>)]_vars

\* C40: a create-payment-intent request ends in an error only if no pending
\* Payment row was recorded for the intent it created; once the row is
\* committed the answer carries client_secret and payment_intent_id.
C40_RowImpliesSecret ==
  [][\A r \in Reqs :
       (req[r].kind = "payment_intent" /\ req'[r].pc = "done"
        /\ req'[r].result # "client_secret")
         => (req[r].intent = "None" \/ payments'[req[r].intent].kind = "absent")]_vars

\* C6: whatever events are delivered for a payment, replayed or overlapping,
\* the balance is increased for that payment exactly once in total.
C6_GrantOnce == \A p \in PaymentIds : hist.grants[p] <= 1

====
